---------------------------- MODULE Spec2Model ----------------------------
(***************************************************************************)
(* A model of the RSS digest agent (src/main.py): the seen-url cache, the  *)
(* three batched oracle passes, and the per-group loop of main().          *)
(*                                                                         *)
(* Article dicts are Python objects shared by reference between the lists  *)
(* fresh, relevant and summarized, so the model keeps an object store      *)
(* (a function from object id to the dict's fields) and lists of ids.      *)
(***************************************************************************)
EXTENDS Integers, Sequences, FiniteSets, TLC

(***************************************************************************)
(* Program constants.                                                      *)
(***************************************************************************)
batch_size == 5

MaxDigest == 12

ScoreThreshold == 7

FallbackChars == 200

(***************************************************************************)
(* Bounds of the model.                                                    *)
(***************************************************************************)
\* Longest article list given to a pass (three batches, more than MaxDigest).
MaxArticles == 13

\* Longest article list for which the oracle's answers range over RichResponses.
MaxRichArticles == 6

\* Longest results array in RichResponses.
MaxEntries == 2

\* Longest oracle text, in tokens, given to the summarization pass.
MaxTokens == 2

\* Most named groups in a configuration.
MaxGroups == 2

\* Most runs of main() in a row.
MaxRuns == 2

\* The number of midnights that may pass during one run of main().
MaxRunDays == 1

(***************************************************************************)
(* JSON values as json.loads returns them, reduced to what the code reads: *)
(* a kind t and an integer payload v.  "absent" is a key that the dict     *)
(* does not have.  A bool carries 0/1 (Python's bool is an int); a str     *)
(* carries 0 for the empty string and 1 for a non-empty one.               *)
(***************************************************************************)
JAbsent == [t |-> "absent", v |-> 0]

JNull == [t |-> "null", v |-> 0]

JTrue == [t |-> "bool", v |-> 1]

JFalse == [t |-> "bool", v |-> 0]

JInt(n) == [t |-> "int", v |-> n]

JStr(n) == [t |-> "str", v |-> n]

\* Python: the value is an int (bool included), so arithmetic and >= work.
IsNumber(j) == j.t \in {"int", "bool"}

\* Python truthiness of result.get(key): a missing key gives None.
Truthy(j) ==
    CASE j.t = "absent" -> FALSE
      [] j.t = "null" -> FALSE
      [] OTHER -> j.v # 0

\* dict.get(key, 0): the default replaces a missing key only.
GetOrZero(j) == IF j.t = "absent" THEN JInt(0) ELSE j

(***************************************************************************)
(* An element of the parsed results array: a dict with the keys the code   *)
(* reads, or some other JSON value (isDict = FALSE), on which .get raises. *)
(***************************************************************************)
Entry(i, s, r) ==
    [isDict |-> TRUE, id |-> i, score |-> s, relevant |-> r, sentiment |-> "absent"]

NotADict ==
    [isDict |-> FALSE, id |-> JAbsent, score |-> JAbsent, relevant |-> JAbsent,
     sentiment |-> "absent"]

(***************************************************************************)
(* The article dict.  source stands for the fields that depend on the feed *)
(* the entry came from.  relevance_score is the JSON value stored by the      *)
(* relevance pass (JAbsent: key not set); bullets is a string as a         *)
(* sequence of characters with hasBullets telling if the key is set;       *)
(* sentiment is "" while the key is not set.                               *)
(***************************************************************************)
NewArticle(link, summary, source) ==
    [link |-> link, summary |-> summary, source |-> source, scraped |-> FALSE,
     relevance_score |-> JAbsent, hasBullets |-> FALSE, bullets |-> <<>>,
     sentiment |-> ""]

\* The excerpt of the k-th article handed to the code: empty or not.
SampleSummary(k) == IF k % 2 = 1 THEN <<>> ELSE <<"a", "b">>

Min(a, b) == IF a < b THEN a ELSE b

\* Python slice s[:n]
Prefix(s, n) == SubSeq(s, 1, Min(n, Len(s)))

\* Python slice s[i:i + batch_size], i 0-based
Batch(articles, i) == SubSeq(articles, i + 1, Min(i + batch_size, Len(articles)))


(***************************************************************************)
(* filter_relevant_articles, lines 179-228.                                *)
(***************************************************************************)

\* What the completion call of one batch produced (lines 207-216):
\*   "raise"   the call raised;
\*   "noarray" re.search found no [...] in the text;
\*   "badjson" json.loads raised on the matched text;
\*   "array"   json.loads returned the list `entries`.
Response(kind, entries) == [kind |-> kind, entries |-> entries]

\* Line 218: result.get("id", 0) - 1 raises AttributeError when result is no
\* dict and TypeError when the id is None or a string.
IdRaises(e) == ~e.isDict \/ ~IsNumber(GetOrZero(e.id))

\* Line 218 without the "- 1" (mutant): ids taken as 0-based positions.
EntryIdx_ZeroBased(e) == GetOrZero(e.id).v

\* Line 218: idx, 0-based.
EntryIdx(e) == GetOrZero(e.id).v - 1

\* Line 219, up to the score test: `and` short-circuits, so the score is read
\* only for an id in range whose relevant value is truthy.
ReadsScore(e, n) == 0 <= EntryIdx(e) /\ EntryIdx(e) < n /\ Truthy(e.relevant)

\* Line 219: result.get("score", 0) >= 7 raises TypeError for None or a string.
ScoreRaises(e, n) == ReadsScore(e, n) /\ ~IsNumber(GetOrZero(e.score))

EntryRaises(e, n) == IdRaises(e) \/ ScoreRaises(e, n)

\* Line 219 with the relevant test dropped (mutant).
Admits_ScoreOnly(e, n) ==
    /\ 0 <= EntryIdx(e) /\ EntryIdx(e) < n
    /\ IsNumber(GetOrZero(e.score))
    /\ GetOrZero(e.score).v >= ScoreThreshold

\* Line 219: the whole condition, for an entry that does not raise.
Admits(e, n) == ReadsScore(e, n) /\ GetOrZero(e.score).v >= ScoreThreshold

\* Lines 217-221: the loop over results.  An exception leaves the loop with
\* the items appended so far still in `relevant`.
RECURSIVE FilterEntries(_, _, _, _)
FilterEntries(heap, batch, entries, relevant) ==
    IF entries = <<>>
    THEN [heap |-> heap, relevant |-> relevant, raised |-> FALSE]
    ELSE LET e == Head(entries)
             n == Len(batch)
         IN  IF EntryRaises(e, n)
             THEN [heap |-> heap, relevant |-> relevant, raised |-> TRUE]
             ELSE IF Admits(e, n)
             THEN LET obj == batch[EntryIdx(e) + 1]
                  IN  FilterEntries([heap EXCEPT ![obj].relevance_score = e.score],
                                    batch, Tail(entries), Append(relevant, obj))
             ELSE FilterEntries(heap, batch, Tail(entries), relevant)

\* Lines 206-223: one batch, the try block and its except clause.
FilterBatch(heap, batch, response, relevant) ==
    IF response.kind = "array"
    THEN FilterEntries(heap, batch, response.entries, relevant)
    ELSE [heap |-> heap, relevant |-> relevant, raised |-> response.kind # "noarray"]

\* Line 227: the sort key, x.get("relevance_score", 0).
ScoreKey(heap, obj) == GetOrZero(heap[obj].relevance_score).v

\* list.sort(key, reverse=True) is stable: an element goes behind every
\* element whose key is greater or equal.
RECURSIVE InsertDesc(_, _, _)
InsertDesc(heap, sorted, obj) ==
    IF sorted = <<>> THEN <<obj>>
    ELSE IF ScoreKey(heap, Head(sorted)) >= ScoreKey(heap, obj)
    THEN <<Head(sorted)>> \o InsertDesc(heap, Tail(sorted), obj)
    ELSE <<obj>> \o sorted

RECURSIVE SortDescFrom(_, _, _)
SortDescFrom(heap, sorted, rest) ==
    IF rest = <<>> THEN sorted
    ELSE SortDescFrom(heap, InsertDesc(heap, sorted, Head(rest)), Tail(rest))

\* Line 227 without reverse=True (mutant).
SortByScore_Ascending(heap, relevant) ==
    LET d == SortDescFrom(heap, <<>>, relevant)
    IN  [k \in 1..Len(d) |-> d[Len(d) + 1 - k]]

\* Line 227
SortByScore(heap, relevant) == SortDescFrom(heap, <<>>, relevant)

\* Lines 227-228: what the function returns once the loop is over.
FilterResult(heap, relevant) == Prefix(SortByScore(heap, relevant), MaxDigest)

\* Lines 188-225: the loop over batches from offset i, responses[1] answering
\* the batch at i.
RECURSIVE FilterLoop(_, _, _, _, _)
FilterLoop(heap, articles, i, responses, relevant) ==
    IF i >= Len(articles)
    THEN [heap |-> heap, relevant |-> relevant]
    ELSE LET r == FilterBatch(heap, Batch(articles, i), Head(responses), relevant)
         IN  FilterLoop(r.heap, articles, i + batch_size, Tail(responses), r.relevant)

\* Number of completion calls a pass makes for a list of n articles.
NumBatches(n) == (n + batch_size - 1) \div batch_size

\* Lines 179-228: the whole function; responses holds one response per batch.
filter_relevant_articles(heap, articles, responses) ==
    LET r == FilterLoop(heap, articles, 0, responses, <<>>)
    IN  [heap |-> r.heap, result |-> FilterResult(r.heap, r.relevant)]


(***************************************************************************)
(* summarize_articles, lines 231-284.  Strings are sequences of            *)
(* characters.  The oracle's text is a sequence of tokens: a positional    *)
(* marker "[k]" (mark = k) or a run of other characters (mark = -1).       *)
(***************************************************************************)
Marker(k) == [mark |-> k, text |-> <<>>]

Text(chars) == [mark |-> -1, text |-> chars]

\* What the completion call of one batch produced (lines 260-266).
SummaryResponse(kind, tokens) == [kind |-> kind, tokens |-> tokens]

\* str.strip() with no argument removes the characters str.isspace() holds
\* for: blank, \n, \t, \r, \f, and (written raw below) \x0b, \x1c-\x1f,
\* \x85 and \xa0.  The whitespace characters above \xff (U+1680,
\* U+2000-U+200A, U+2028, U+2029, U+202F, U+205F, U+3000) cannot be written
\* in a module and are outside the alphabet of the model.
IsSpace(c) ==
    c \in {" ", "\n", "\t", "\r", "\f", "", "", "", "", "", "", " "}

RECURSIVE LStrip(_)
LStrip(str) ==
    IF str # <<>> /\ IsSpace(Head(str)) THEN LStrip(Tail(str)) ELSE str

RECURSIVE RStrip(_)
RStrip(str) ==
    IF str # <<>> /\ IsSpace(str[Len(str)])
    THEN RStrip(SubSeq(str, 1, Len(str) - 1))
    ELSE str

\* str.strip()
Strip(str) == RStrip(LStrip(str))

\* The text up to the next marker: what re.split puts in one section.
RECURSIVE SectionText(_)
SectionText(tokens) ==
    IF tokens = <<>> \/ Head(tokens).mark >= 0 THEN <<>>
    ELSE Head(tokens).text \o SectionText(Tail(tokens))

RECURSIVE AfterSection(_)
AfterSection(tokens) ==
    IF tokens = <<>> \/ Head(tokens).mark >= 0 THEN tokens
    ELSE AfterSection(Tail(tokens))

\* Lines 267-272: re.split on the markers, then the dict from the marker's
\* number to the stripped text behind it; a later marker with the same
\* number overwrites.  tokens starts at a marker or is empty.
RECURSIVE ParseSummaries(_, _)
ParseSummaries(tokens, summaries) ==
    IF tokens = <<>> THEN summaries
    ELSE LET idx == Head(tokens).mark
             content == Strip(SectionText(Tail(tokens)))
         IN  ParseSummaries(AfterSection(Tail(tokens)), (idx :> content) @@ summaries)

\* Lines 275 and 280: f"\u2022 {article['summary'][:200]}", "*" standing for
\* the bullet sign.
FallbackBullets(article) == <<"*", " ">> \o Prefix(article.summary, FallbackChars)

\* Line 275: summaries.get(j, fallback)
BulletsFor(summaries, j, article) ==
    IF j \in DOMAIN summaries THEN summaries[j] ELSE FallbackBullets(article)

\* Lines 274-275: the loop over the positions of the batch from j on.  An
\* article that stands at two positions is assigned twice and keeps the
\* bullets of the later one.
RECURSIVE AssignBullets(_, _, _, _)
AssignBullets(heap, batch, j, summaries) ==
    IF j > Len(batch) THEN heap
    ELSE AssignBullets(
             [heap EXCEPT ![batch[j]].hasBullets = TRUE,
                          ![batch[j]].bullets =
                              BulletsFor(summaries, j, heap[batch[j]])],
             batch, j + 1, summaries)

\* Lines 279-280: the except clause gives every article of the batch the
\* bullet made of its own summary.
AssignFallback(heap, batch) ==
    [obj \in DOMAIN heap |->
        IF \E j \in 1..Len(batch) : batch[j] = obj
        THEN [heap[obj] EXCEPT !.hasBullets = TRUE,
                               !.bullets = FallbackBullets(heap[obj])]
        ELSE heap[obj]]

\* Lines 259-280: one batch, the try block and its except clause.
SummarizeBatch(heap, batch, response) ==
    IF response.kind = "raise" THEN AssignFallback(heap, batch)
    ELSE AssignBullets(heap, batch, 1,
                       ParseSummaries(AfterSection(response.tokens), <<>>))

\* Lines 239-282: the loop over batches from offset i.
RECURSIVE SummarizeLoop(_, _, _, _)
SummarizeLoop(heap, articles, i, responses) ==
    IF i >= Len(articles) THEN heap
    ELSE SummarizeLoop(SummarizeBatch(heap, Batch(articles, i), Head(responses)),
                       articles, i + batch_size, Tail(responses))

\* Lines 231-284: the whole function; it returns the list it was given.
summarize_articles(heap, articles, responses) ==
    [heap |-> SummarizeLoop(heap, articles, 0, responses), result |-> articles]

(***************************************************************************)
(* analyze_sentiment, lines 287-334.  The answer has the kinds of the      *)
(* relevance pass; an entry's sentiment is "Positive", "Negative",         *)
(* "Neutral", "absent" (no such key) or "other" (any other value).         *)
(***************************************************************************)
SEntry(i, sentiment) ==
    [isDict |-> TRUE, id |-> i, score |-> JAbsent, relevant |-> JAbsent,
     sentiment |-> sentiment]

\* Lines 323-325
NormalizedSentiment(e) ==
    IF e.sentiment \in {"Positive", "Negative", "Neutral"} THEN e.sentiment
    ELSE "Neutral"

\* Lines 320-326: the loop over results; line 321 raises as line 218 does.
RECURSIVE SentimentEntries(_, _, _)
SentimentEntries(heap, batch, entries) ==
    IF entries = <<>> THEN [heap |-> heap, raised |-> FALSE]
    ELSE LET e == Head(entries)
         IN  IF IdRaises(e) THEN [heap |-> heap, raised |-> TRUE]
             ELSE IF 0 <= EntryIdx(e) /\ EntryIdx(e) < Len(batch)
             THEN SentimentEntries(
                      [heap EXCEPT ![batch[EntryIdx(e) + 1]].sentiment =
                                        NormalizedSentiment(e)],
                      batch, Tail(entries))
             ELSE SentimentEntries(heap, batch, Tail(entries))

\* Lines 329-330 with an assignment in place of setdefault (mutant).
SetDefaultNeutral_Overwrite(heap, batch) ==
    [obj \in DOMAIN heap |->
        IF \E j \in 1..Len(batch) : batch[j] = obj
        THEN [heap[obj] EXCEPT !.sentiment = "Neutral"]
        ELSE heap[obj]]

\* Lines 329-330: article.setdefault("sentiment", "Neutral") over the batch.
SetDefaultNeutral(heap, batch) ==
    [obj \in DOMAIN heap |->
        IF (\E j \in 1..Len(batch) : batch[j] = obj) /\ heap[obj].sentiment = ""
        THEN [heap[obj] EXCEPT !.sentiment = "Neutral"]
        ELSE heap[obj]]

\* Lines 309-330: one batch, the try block and its except clause.
SentimentBatch(heap, batch, response) ==
    IF response.kind = "noarray" THEN heap
    ELSE IF response.kind = "array"
    THEN LET r == SentimentEntries(heap, batch, response.entries)
         IN  IF r.raised THEN SetDefaultNeutral(r.heap, batch) ELSE r.heap
    ELSE SetDefaultNeutral(heap, batch)

\* Lines 294-332: the loop over batches from offset i.
RECURSIVE SentimentLoop(_, _, _, _)
SentimentLoop(heap, articles, i, responses) ==
    IF i >= Len(articles) THEN heap
    ELSE SentimentLoop(SentimentBatch(heap, Batch(articles, i), Head(responses)),
                       articles, i + batch_size, Tail(responses))

\* Lines 287-334: the whole function; it returns the list it was given.
analyze_sentiment(heap, articles, responses) ==
    [heap |-> SentimentLoop(heap, articles, 0, responses), result |-> articles]

\* Lines 310-328: TRUE when the try block of the batch raised.
SentimentRaised(heap, batch, response) ==
    \/ response.kind \in {"raise", "badjson"}
    \/ response.kind = "array"
          /\ SentimentEntries(heap, batch, response.entries).raised

\* Lines 259-277: TRUE when the try block of the batch raised.
SummarizeRaised(response) == response.kind = "raise"

\* Lines 225, 282 and 332 moved into the try block (mutant): no sleep after
\* a batch that raised.
SleepAfter_OnSuccess(raised) == IF raised THEN 0 ELSE 1

\* Lines 225, 282 and 332: time.sleep(1) ends every iteration of the loop
\* over batches, after the try statement.
SleepAfter(raised) == 1

\* Lines 222, 277 and 328 without the except clause (mutant): what the try
\* block raised leaves the pass.
PassPc_Propagates(at, raised) == IF raised THEN "raised" ELSE at

\* Lines 222, 277 and 328: `except Exception` ends the batch and the loop
\* goes on to the next one.
PassPc(at, raised) == at

(***************************************************************************)
(* The seen-url cache, lines 25-68.  The table is a function from url to   *)
(* the day it was cached.  cached_at is a "%Y-%m-%d" string, and such      *)
(* strings compare as their dates do, so days are integers here.           *)
(***************************************************************************)
DefaultExpiryDays == 7

\* Lines 39-45
is_cached(store, url) == url \in DOMAIN store

\* Lines 48-58 with INSERT OR REPLACE (mutant): a url that is present gets
\* today's date.
add_to_cache_Replace(store, urls, today) ==
    LET added == {urls[k] : k \in 1..Len(urls)}
    IN  [u \in DOMAIN store \cup added |-> IF u \in added THEN today ELSE store[u]]

\* Lines 48-58: INSERT OR IGNORE keeps the row of a url that is present.
RECURSIVE add_to_cache(_, _, _)
add_to_cache(store, urls, today) ==
    IF urls = <<>> THEN store
    ELSE add_to_cache(IF Head(urls) \in DOMAIN store THEN store
                      ELSE (Head(urls) :> today) @@ store,
                      Tail(urls), today)

\* Line 412 left out (mutant): nothing is purged.
purge_expired_Skipped(store, days, today) == store

\* Lines 61-68 with `cached_at <= cutoff` (mutant): the last day of the
\* retention window is purged too.
purge_expired_Inclusive(store, days, today) ==
    LET cutoff == today - days
        kept == {u \in DOMAIN store : ~(store[u] <= cutoff)}
    IN  [u \in kept |-> store[u]]

\* Lines 61-68: DELETE ... WHERE cached_at < cutoff
purge_expired(store, days, today) ==
    LET cutoff == today - days
        kept == {u \in DOMAIN store : ~(store[u] < cutoff)}
    IN  [u \in kept |-> store[u]]

(***************************************************************************)
(* main and its helpers, lines 109-145 and 337-479.                        *)
(***************************************************************************)

\* Lines 109-114: TRUE when validate_config raises ValueError.
validate_config_raises(config) ==
    ~config.feeds \/ (~config.hasUsers /\ ~config.hasTopics)

\* Lines 127-145: config.users holds, per group, the addresses found in the
\* group's environment variable; without a users key, config.gmailTo holds
\* those of GMAIL_TO for the one group "Default".
resolve_users(config) ==
    IF config.hasUsers
    THEN [k \in 1..Len(config.users) |->
            [name |-> k, emails |-> config.users[k], topics |-> k]]
    ELSE <<[name |-> 0, emails |-> config.gmailTo, topics |-> 0]>>

\* Line 417: the article dicts fetch_articles returns for the entries it
\* keeps, one new object per entry, in feed order.
FetchedArticles(entries) ==
    [k \in 1..Len(entries) |-> NewArticle(entries[k], SampleSummary(k), k)]

\* Line 418 left out (mutant): the list fetch_articles returned.
Dedup_None(heap, k, acc) == [j \in 1..Len(heap) |-> j]

\* Line 418: list({a["link"]: a for a in articles}.values()).  A dict keeps
\* a key at the position of its first insertion and the value of its last.
RECURSIVE Dedup(_, _, _)
Dedup(heap, k, acc) ==
    IF k > Len(heap) THEN acc
    ELSE LET dup == {j \in 1..Len(acc) : heap[acc[j]].link = heap[k].link}
         IN  IF dup = {}
             THEN Dedup(heap, k + 1, Append(acc, k))
             ELSE Dedup(heap, k + 1,
                        [j \in 1..Len(acc) |-> IF j \in dup THEN k ELSE acc[j]])

\* Line 421: [a for a in articles if not is_cached(a["link"])]
RECURSIVE Fresh(_, _, _)
Fresh(heap, articles, store) ==
    IF articles = <<>> THEN <<>>
    ELSE (IF is_cached(store, heap[Head(articles)].link) THEN <<>>
          ELSE <<Head(articles)>>)
         \o Fresh(heap, Tail(articles), store)

\* Line 477: [a["link"] for a in fresh]
Links(heap, list) == [k \in 1..Len(list) |-> heap[list[k]].link]

\* Lines 352-353 without the no-articles message (mutant).
compile_digest_NoMessage(heap, articles) ==
    [noArticles |-> FALSE,
     items |-> [k \in 1..Len(articles) |->
                  [link |-> heap[articles[k]].link,
                   score |-> GetOrZero(heap[articles[k]].relevance_score).v,
                   sentiment |-> heap[articles[k]].sentiment,
                   bullets |-> heap[articles[k]].bullets]]]

\* Lines 337-387: what the digest shows: the no-articles message (line 353)
\* or one block per article with its score, sentiment and bullets.
compile_digest(heap, articles) ==
    [noArticles |-> articles = <<>>,
     items |-> [k \in 1..Len(articles) |->
                  [link |-> heap[articles[k]].link,
                   score |-> ScoreKey(heap, articles[k]),
                   sentiment |-> heap[articles[k]].sentiment,
                   bullets |-> heap[articles[k]].bullets]]]

\* Line 89: a paragraph counts when its stripped text is longer than this.
MinParagraph == 50

\* Lines 71 and 448: max_chars when the configuration does not give it.
DefaultMaxChars == 2000

\* What requests.get and the parser give for a link: an exception (network
\* error, timeout, HTTP status), or the stripped texts of the page's <p> tags.
Page(kind, paragraphs) == [kind |-> kind, paragraphs |-> paragraphs]

\* Lines 85-90: the paragraphs longer than MinParagraph joined with a space.
RECURSIVE JoinParagraphs(_)
JoinParagraphs(paragraphs) ==
    IF paragraphs = <<>> THEN <<>>
    ELSE LET rest == JoinParagraphs(Tail(paragraphs))
         IN  IF Len(Head(paragraphs)) <= MinParagraph THEN rest
             ELSE IF rest = <<>> THEN Head(paragraphs)
             ELSE Head(paragraphs) \o <<" ">> \o rest

\* Line 92 without the slice (mutant).
scrape_article_Untruncated(page, max_chars) ==
    IF page.kind = "error" THEN <<>> ELSE JoinParagraphs(page.paragraphs)

\* Lines 71-95 for max_chars >= 0.  <<>> is the None of lines 92 and 95
\* (and the empty slice, which line 452 treats as None).
scrape_article(page, max_chars) ==
    IF page.kind = "error" THEN <<>>
    ELSE Prefix(JoinParagraphs(page.paragraphs), max_chars)

\* Lines 434-436 with every group passed over (mutant).
HasRecipients_Never(user) == FALSE

\* Lines 434-436 with the skip dropped (mutant).
HasRecipients_Always(user) == TRUE

\* Lines 432-434: to_email is non-empty when the group has an address.
HasRecipients(user) == user.emails # <<>>

\* Line 453 moved under `if scraped:` (mutant).
ScrapedFlag_OnSuccessOnly(text) == text # <<>>

\* Line 453: article["scraped"] = True, whatever scrape_article returned.
ScrapedFlag(text) == TRUE

\* Lines 451-452: the excerpt after a scrape that returned text (<<>> is None).
ScrapedSummary(summary, text) == IF text # <<>> THEN text ELSE summary

\* Lines 464-474 without the try/except (mutant).
AfterSend_Propagates(ok) == IF ok THEN "group" ELSE "aborted"

\* Lines 464-474: a send_email that raised is logged and the loop goes on.
AfterSend(ok) == "group"

\* Line 438 handing a group only what the group before it left (mutant).
FilterInput_Unclaimed(fresh, relevant) ==
    SelectSeq(fresh, LAMBDA obj : \A k \in 1..Len(relevant) : relevant[k] # obj)

\* Line 438: the list main passes to filter_relevant_articles for each group
\* is fresh, which nothing in the loop rebinds or mutates.
FilterInput(fresh, relevant) == fresh

\* Line 444 looping over every fresh article (mutant).
ScrapeInput_Fresh(fresh, relevant) == fresh

\* Line 444: the scrape loop runs over the list the group's
\* filter_relevant_articles call returned.
ScrapeInput(fresh, relevant) == relevant

\* Lines 463-474 followed by an add_to_cache of the delivered links (mutant).
StoreAfterSend_Commits(store, urls, today) == add_to_cache(store, urls, today)

\* Lines 463-474: compile_digest and send_email do not touch the cache file.
StoreAfterSend(store, urls, today) == store

\* Line 477 with the delivered items instead of the fresh ones (mutant).
CommitUrls_Relevant(heap, fresh, relevant) == Links(heap, relevant)

\* Line 477: the urls given to add_to_cache.
CommitUrls(heap, fresh, relevant) == Links(heap, fresh)

(***************************************************************************)
(* fetch_articles, lines 148-176.  Time is counted in hours.  An entry has *)
(* a link, published_parsed (missing or empty: "none"; a value datetime()  *)
(* rejects: "bad"; else the time it stands for) and a summary and a        *)
(* description, each absent, None or a string.                             *)
(***************************************************************************)
SummaryLimit == 500

DefaultLookbackHours == 24

HoursPerDay == 24

\* Line 151: datetime.now(), in hours.
Now == 100

FEntry(link, published, summary, description) ==
    [link |-> link, published |-> published, summary |-> summary,
     description |-> description]

NoDate == [t |-> "none", v |-> 0]

BadDate == [t |-> "bad", v |-> 0]

At(time) == [t |-> "time", v |-> time]

NoText == [t |-> "absent", v |-> <<>>]

NoneText == [t |-> "none", v |-> <<>>]

Str(chars) == [t |-> "str", v |-> chars]

\* What feedparser.parse did for one feed url: it raised, or it returned a
\* feed with these entries.
Parsed(kind, entries) == [kind |-> kind, entries |-> entries]

\* Lines 157-163: published is None unless published_parsed is there and
\* datetime() accepts it.
ParsePublished(p) ==
    IF p.t = "time" THEN [known |-> TRUE, time |-> p.v]
    ELSE [known |-> FALSE, time |-> 0]

\* Line 166 with the undated entries left out (mutant).
IncludeEntry_DatedOnly(published, cutoff) ==
    published.known /\ published.time >= cutoff

\* Line 166: published is None or published >= cutoff.
IncludeEntry(published, cutoff) ==
    ~published.known \/ published.time >= cutoff

\* Line 169: entry.get("summary", entry.get("description", "")).
EntryText(e) ==
    IF e.summary.t # "absent" THEN e.summary
    ELSE IF e.description.t # "absent" THEN e.description
    ELSE Str(<<>>)

\* Line 169: slicing None raises TypeError.
EntryRaisesInFetch(e) == EntryText(e).t = "none"

\* Line 169 without the slice (mutant).
Excerpt_Whole(chars) == chars

\* Line 169: [:500]
Excerpt(chars) == Prefix(chars, SummaryLimit)

UnknownDate == [known |-> FALSE, day |-> 0]

\* Line 170: published.strftime("%Y-%m-%d") if published else "Unknown".
PublishedField(published) ==
    IF published.known
    THEN [known |-> TRUE, day |-> published.time \div HoursPerDay]
    ELSE UnknownDate

\* Lines 167-173: the dict appended for an entry of the f-th feed.
FetchedItem(e, f) ==
    [link |-> e.link, summary |-> Excerpt(EntryText(e).v),
     published |-> PublishedField(ParsePublished(e.published)), source |-> f]

\* Lines 156-173: the loop over the entries of the f-th feed from entry j.
\* An exception leaves the loop with the articles appended so far.
RECURSIVE FetchEntries(_, _, _, _, _, _)
FetchEntries(entries, j, f, cutoff, articles, origin) ==
    IF j > Len(entries)
    THEN [articles |-> articles, origin |-> origin, raised |-> FALSE]
    ELSE IF ~IncludeEntry(ParsePublished(entries[j].published), cutoff)
    THEN FetchEntries(entries, j + 1, f, cutoff, articles, origin)
    ELSE IF EntryRaisesInFetch(entries[j])
    THEN [articles |-> articles, origin |-> origin, raised |-> TRUE]
    ELSE FetchEntries(entries, j + 1, f, cutoff,
                      Append(articles, FetchedItem(entries[j], f)),
                      Append(origin, [feed |-> f, entry |-> j]))

\* Lines 153-175: one feed url, the try block and its except clause.
FetchFeed(parsed, f, cutoff, articles, origin) ==
    IF parsed.kind = "raise"
    THEN [articles |-> articles, origin |-> origin, raised |-> TRUE]
    ELSE FetchEntries(parsed.entries, 1, f, cutoff, articles, origin)

\* Lines 153-175: the loop over the feed urls from the f-th on.
RECURSIVE FetchLoop(_, _, _, _, _)
FetchLoop(parses, f, cutoff, articles, origin) ==
    IF f > Len(parses) THEN articles
    ELSE LET r == FetchFeed(parses[f], f, cutoff, articles, origin)
         IN  FetchLoop(parses, f + 1, cutoff, r.articles, r.origin)

\* Lines 148-176: the list returned when feedparser.parse gives parses[f]
\* for the f-th feed url.
fetch_articles(parses, hours) == FetchLoop(parses, 1, Now - hours, <<>>, <<>>)

(***************************************************************************)
(* Oracle answers the relevance pass is run against.                       *)
(***************************************************************************)
GoodHigh == Entry(JInt(1), JInt(9), JTrue)

GoodAtThreshold == Entry(JInt(2), JInt(ScoreThreshold), JTrue)

RelevantButLow == Entry(JInt(1), JInt(ScoreThreshold - 1), JTrue)

HighButIrrelevant == Entry(JInt(2), JInt(9), JFalse)

ScoreIsString == Entry(JInt(2), JStr(1), JTrue)

RichEntries ==
    {GoodHigh, GoodAtThreshold, RelevantButLow, HighButIrrelevant, NotADict,
     ScoreIsString}

RECURSIVE SeqsUpTo(_, _)
SeqsUpTo(S, n) ==
    IF n = 0 THEN {<<>>}
    ELSE LET shorter == SeqsUpTo(S, n - 1)
         IN  shorter \cup {Append(q, x) : q \in {t \in shorter : Len(t) = n - 1}, x \in S}

\* The ids that name no position of a batch: none, zero, negative, one more
\* than the largest batch.
StrayIds == <<JAbsent, JInt(0), JInt(-1), JInt(batch_size + 1)>>

\* An array with a high, relevant entry under every stray id, then a good
\* entry for position 1.
StrayEntries ==
    [k \in 1..Len(StrayIds) |-> Entry(StrayIds[k], JInt(9), JTrue)] \o <<GoodHigh>>

\* Arrays of at most MaxEntries entries, in any order, repeated ids included,
\* and the array with the stray ids.
RichResponses ==
    {Response("array", es) : es \in SeqsUpTo(RichEntries, MaxEntries)}
        \cup {Response("array", StrayEntries)}

\* An answer for every position 1..batch_size, all marked relevant, with score
\* s1 on the odd positions and s2 on the even ones.
CompleteArray(s1, s2) ==
    [k \in 1..batch_size |->
        Entry(JInt(k), JInt(IF k % 2 = 1 THEN s1 ELSE s2), JTrue)]

\* An answer for every position, all marked relevant with score s, listed
\* from the last position to the first.
ReversedArray(s) ==
    [k \in 1..batch_size |-> Entry(JInt(batch_size + 1 - k), JInt(s), JTrue)]

\* The scores tried: below the threshold, above it, the top of the scale the
\* prompt asks for (line 201) and one above that.
CompleteResponses ==
    {Response("array", CompleteArray(s1, s2)) : s1, s2 \in {6, 8, 10, 11}}
        \cup {Response("array", ReversedArray(8))}

FailedResponses == {Response(k, <<>>) : k \in {"raise", "noarray", "badjson"}}

\* The answers tried for a list of n articles.
RelevanceResponses(n) ==
    FailedResponses \cup CompleteResponses
        \cup (IF n <= MaxRichArticles THEN RichResponses ELSE {})

\* Oracle answers the summarization pass is run against: the call raises, or
\* it returns a text of at most MaxTokens tokens.
SummaryTokens == {Marker(1), Marker(2), Text(<<"x">>), Text(<<" ">>), Text(<<"\t">>)}

SummaryResponses ==
    {SummaryResponse("raise", <<>>)}
        \cup {SummaryResponse("text", ts) : ts \in SeqsUpTo(SummaryTokens, MaxTokens)}

\* Oracle answers the sentiment pass is run against: the call raises, the
\* text holds no array or invalid JSON, or an array of at most MaxEntries
\* entries: the three values, another value, no sentiment key, no dict.
SentimentEntryChoices ==
    {SEntry(JInt(1), "Positive"), SEntry(JInt(2), "Negative"),
     SEntry(JInt(2), "Neutral"), SEntry(JInt(1), "other"),
     SEntry(JInt(2), "absent"), NotADict}

\* A Negative under every stray id, then a Negative for position 1.
StraySentiments ==
    [k \in 1..Len(StrayIds) |-> SEntry(StrayIds[k], "Negative")]
        \o <<SEntry(JInt(1), "Negative")>>

SentimentResponses ==
    FailedResponses
        \cup {Response("array", es) : es \in SeqsUpTo(SentimentEntryChoices, MaxEntries)}
        \cup {Response("array", StraySentiments)}

(***************************************************************************)
(* State.  The h* variables are a call of one pass on its own: the list    *)
(* passed in, the object store, the loop's position, the oracle's answers *)
(* so far and the number of time.sleep(1) calls made.                      *)
(***************************************************************************)
VARIABLES hPc, hHeap0, hHeap, hArticles, hI, hRelevant, hLog, hOut, hSleeps

hvars == <<hPc, hHeap0, hHeap, hArticles, hI, hRelevant, hLog, hOut, hSleeps>>

(***************************************************************************)
(* A process running main(): pc is its position, config .. si its locals,  *)
(* heap the article dicts.  store and tableExists are the cache file,      *)
(* today the calendar day, purgeDay the day purge_expired read (line 64).  *)
(* The logs record the calls made during the run:                          *)
(* oracleLog the completion calls, scrapeLog the scrape_article calls,     *)
(* sendLog the send_email calls, skipped the groups passed over, addCalls  *)
(* the add_to_cache calls; seenAtStart is the cache's urls when line 421   *)
(* ran.  run counts the runs, committed holds what earlier runs cached.    *)
(***************************************************************************)
VARIABLES pc, run, today, purgeDay, store, tableExists, config, heap, articles, fresh,
          users, gi, relevant, si, oracleLog, scrapeLog, sendLog, skipped,
          addCalls, seenAtStart, committed

locals == <<config, heap, articles, fresh, users, gi, relevant, si>>

logs == <<oracleLog, scrapeLog, sendLog, skipped, addCalls, seenAtStart>>

mvars == <<pc, run, today, purgeDay, store, tableExists, locals, logs, committed>>

\* A call of fetch_articles on its own: the lookback window, the number of
\* feed urls, what feedparser.parse gave for the feeds read so far, the
\* articles appended so far and, for each, the feed and entry it came from.
VARIABLES fPc, fHours, fFeeds, fLog, fArticles, fOrigin

fvars == <<fPc, fHours, fFeeds, fLog, fArticles, fOrigin>>

\* Calls of the cache functions on their own, on store, tableExists and
\* today: the last call made, with the table as it was before the call.
VARIABLES cPc, cLast

cvars == <<cPc, cLast>>

vars == <<hvars, mvars, fvars, cvars>>

NoCall ==
    [op |-> "none", urls |-> <<>>, days |-> 0, day |-> 0,
     before |-> <<>>, result |-> FALSE]

CacheIdle == cPc = "idle" /\ cLast = NoCall

FetchIdle ==
    /\ fPc = "idle" /\ fHours = 0 /\ fFeeds = 0
    /\ fLog = <<>> /\ fArticles = <<>> /\ fOrigin = <<>>

\* The list [1, ..., n] of distinct article objects.
ArticleList(n) == [k \in 1..n |-> k]

\* Articles as the caller hands them over: fresh from fetch_articles, or
\* carrying the relevance_score of an earlier group's call.
SampleHeap(n, prior) ==
    [k \in 1..n |-> [NewArticle(k, SampleSummary(k), 1) EXCEPT !.relevance_score = prior]]

HarnessIdle ==
    /\ hPc = "idle" /\ hHeap0 = <<>> /\ hHeap = <<>> /\ hArticles = <<>>
    /\ hI = 0 /\ hRelevant = <<>> /\ hLog = <<>> /\ hOut = <<>> /\ hSleeps = 0

EmptyStore == [u \in {} |-> 0]

NoConfig ==
    [feeds |-> FALSE, hasUsers |-> FALSE, hasTopics |-> FALSE, users |-> <<>>,
     gmailTo |-> <<>>, scraping |-> FALSE, sentiment |-> FALSE, expiry_days |-> 0,
     max_chars |-> 0]

\* The locals and logs of a process that has not run yet.
ProcessStart ==
    /\ config = NoConfig /\ heap = <<>> /\ articles = <<>> /\ fresh = <<>>
    /\ users = <<>> /\ gi = 0 /\ relevant = <<>> /\ si = 0
    /\ oracleLog = <<>> /\ scrapeLog = <<>> /\ sendLog = <<>> /\ skipped = {}
    /\ addCalls = <<>> /\ seenAtStart = {}

\* No process: the pass is called on its own.
MainIdle ==
    /\ pc = "idle" /\ run = 0 /\ today = 0 /\ purgeDay = 0 /\ store = EmptyStore
    /\ tableExists = FALSE /\ committed = {} /\ ProcessStart

InitFilter ==
    \E n \in 0..MaxArticles, prior \in {JAbsent, JInt(10)} :
        /\ MainIdle /\ FetchIdle /\ CacheIdle
        /\ hPc = "filter"
        /\ hHeap0 = SampleHeap(n, prior)
        /\ hHeap = hHeap0
        /\ hArticles = ArticleList(n)
        /\ hI = 0
        /\ hRelevant = <<>>
        /\ hLog = <<>>
        /\ hOut = <<>>
        /\ hSleeps = 0

\* Lines 188-225: one iteration of the loop over batches.
FilterCall ==
    /\ hPc = "filter"
    /\ hI < Len(hArticles)
    /\ \E r \in RelevanceResponses(Len(hArticles)) :
          LET res == FilterBatch(hHeap, Batch(hArticles, hI), r, hRelevant)
          IN  /\ hHeap' = res.heap
              /\ hRelevant' = res.relevant
              /\ hLog' = Append(hLog, r)
              /\ hPc' = PassPc(hPc, res.raised)
              /\ hSleeps' = hSleeps + SleepAfter(res.raised)
    /\ hI' = hI + batch_size
    /\ UNCHANGED <<hHeap0, hArticles, hOut, mvars, fvars, cvars>>

\* Lines 181-182 and 227-228: the return.
FilterReturn ==
    /\ hPc = "filter"
    /\ hI >= Len(hArticles)
    /\ hOut' = FilterResult(hHeap, hRelevant)
    /\ hPc' = "done"
    /\ UNCHANGED <<hHeap0, hHeap, hArticles, hI, hRelevant, hLog, hSleeps, mvars,
                   fvars, cvars>>

NextFilter == FilterCall \/ FilterReturn

SpecFilter == InitFilter /\ [][NextFilter]_vars

InitSummarize ==
    \E n \in 0..MaxRichArticles :
        /\ MainIdle /\ FetchIdle /\ CacheIdle
        /\ hPc = "summarize"
        /\ hHeap0 = SampleHeap(n, JInt(8))
        /\ hHeap = hHeap0
        /\ hArticles = ArticleList(n)
        /\ hI = 0
        /\ hRelevant = <<>>
        /\ hLog = <<>>
        /\ hOut = <<>>
        /\ hSleeps = 0

\* Lines 239-282: one iteration of the loop over batches.
SummarizeCall ==
    /\ hPc = "summarize"
    /\ hI < Len(hArticles)
    /\ \E r \in SummaryResponses :
          /\ hHeap' = SummarizeBatch(hHeap, Batch(hArticles, hI), r)
          /\ hLog' = Append(hLog, r)
          /\ hPc' = PassPc(hPc, SummarizeRaised(r))
          /\ hSleeps' = hSleeps + SleepAfter(SummarizeRaised(r))
    /\ hI' = hI + batch_size
    /\ UNCHANGED <<hHeap0, hArticles, hRelevant, hOut, mvars, fvars, cvars>>

\* Lines 233-234 and 284: the return.
SummarizeReturn ==
    /\ hPc = "summarize"
    /\ hI >= Len(hArticles)
    /\ hOut' = hArticles
    /\ hPc' = "done"
    /\ UNCHANGED <<hHeap0, hHeap, hArticles, hI, hRelevant, hLog, hSleeps, mvars,
                   fvars, cvars>>

NextSummarize == SummarizeCall \/ SummarizeReturn

SpecSummarize == InitSummarize /\ [][NextSummarize]_vars

\* Articles as main() hands them to analyze_sentiment: summarized, none with
\* a sentiment, or every other one with what an earlier group's call left.
SummarizedHeap(n, prior) ==
    [k \in 1..n |->
        [NewArticle(k, SampleSummary(k), 1) EXCEPT
            !.relevance_score = JInt(8), !.hasBullets = TRUE,
            !.bullets = <<"x">>,
            !.sentiment = IF k % 2 = 1 THEN prior ELSE ""]]

InitSentiment ==
    \E n \in 0..MaxRichArticles, prior \in {"", "Positive"} :
        /\ MainIdle /\ FetchIdle /\ CacheIdle
        /\ hPc = "sentiment"
        /\ hHeap0 = SummarizedHeap(n, prior)
        /\ hHeap = hHeap0
        /\ hArticles = ArticleList(n)
        /\ hI = 0
        /\ hRelevant = <<>>
        /\ hLog = <<>>
        /\ hOut = <<>>
        /\ hSleeps = 0

\* Lines 294-332: one iteration of the loop over batches.
SentimentCall ==
    /\ hPc = "sentiment"
    /\ hI < Len(hArticles)
    /\ \E r \in SentimentResponses :
          /\ hHeap' = SentimentBatch(hHeap, Batch(hArticles, hI), r)
          /\ hLog' = Append(hLog, r)
          /\ hPc' = PassPc(hPc, SentimentRaised(hHeap, Batch(hArticles, hI), r))
          /\ hSleeps' = hSleeps + SleepAfter(SentimentRaised(hHeap, Batch(hArticles, hI), r))
    /\ hI' = hI + batch_size
    /\ UNCHANGED <<hHeap0, hArticles, hRelevant, hOut, mvars, fvars, cvars>>

\* Lines 289-290 and 334: the return.
SentimentReturn ==
    /\ hPc = "sentiment"
    /\ hI >= Len(hArticles)
    /\ hOut' = hArticles
    /\ hPc' = "done"
    /\ UNCHANGED <<hHeap0, hHeap, hArticles, hI, hRelevant, hLog, hSleeps, mvars,
                   fvars, cvars>>

NextSentiment == SentimentCall \/ SentimentReturn

SpecSentiment == InitSentiment /\ [][NextSentiment]_vars

\* Most feed urls given to fetch_articles.
MaxFeeds == 2

Filler(n) == [k \in 1..n |-> "x"]

LookbackChoices == {1, DefaultLookbackHours}

\* Entries of a feed read with the window `hours`: published an hour before
\* the window opens, when it opens, an hour ago, an hour from now, undated
\* or with a date datetime() rejects; summaries shorter and longer than the
\* limit, or None.
EntryChoices(hours) ==
    {FEntry("u1", At(Now - 1), Str(Filler(3)), NoText),
     FEntry("u1", At(Now - hours - 1), Str(Filler(3)), NoText),
     FEntry("u2", At(Now - hours), NoText, Str(Filler(SummaryLimit))),
     FEntry("u2", At(Now + 1), Str(Filler(3)), NoText),
     FEntry("u1", NoDate, Str(Filler(SummaryLimit + 1)), NoText),
     FEntry("u2", BadDate, NoText, NoText),
     FEntry("u1", At(Now - 1), NoneText, NoText),
     FEntry("u2", At(Now - hours - 1), NoneText, NoText)}

\* What feedparser.parse may do for a feed url: raise, or return a feed of
\* no, one or two entries.
ParseChoices(hours) ==
    {Parsed("raise", <<>>), Parsed("ok", <<>>)}
        \cup {Parsed("ok", <<e>>) : e \in EntryChoices(hours)}
        \cup {Parsed("ok", <<d, e>>) :
                 d \in {FEntry("u1", At(Now - 1), Str(Filler(3)), NoText),
                        FEntry("u1", At(Now - 1), NoneText, NoText)},
                 e \in EntryChoices(hours)}

InitFetch ==
    \E n \in 0..MaxFeeds, hours \in LookbackChoices :
        /\ HarnessIdle /\ MainIdle /\ CacheIdle
        /\ fPc = "fetch"
        /\ fHours = hours
        /\ fFeeds = n
        /\ fLog = <<>>
        /\ fArticles = <<>>
        /\ fOrigin = <<>>

\* Lines 153-175: one iteration of the loop over the feed urls.
FetchCall ==
    /\ fPc = "fetch"
    /\ Len(fLog) < fFeeds
    /\ \E parsed \in ParseChoices(fHours) :
          LET r == FetchFeed(parsed, Len(fLog) + 1, Now - fHours, fArticles, fOrigin)
          IN  /\ fArticles' = r.articles
              /\ fOrigin' = r.origin
              /\ fLog' = Append(fLog, parsed)
    /\ UNCHANGED <<fPc, fHours, fFeeds, hvars, mvars, cvars>>

\* Line 176: the return.
FetchReturn ==
    /\ fPc = "fetch"
    /\ Len(fLog) >= fFeeds
    /\ fPc' = "done"
    /\ UNCHANGED <<fHours, fFeeds, fLog, fArticles, fOrigin, hvars, mvars, cvars>>

NextFetch == FetchCall \/ FetchReturn

SpecFetch == InitFetch /\ [][NextFetch]_vars

\* The last day the cache functions are called on.
MaxToday == 10

UrlLists == SeqsUpTo({"u1", "u2"}, 2)

PurgeDays == {0, 1, DefaultExpiryDays}

DayGaps == {1, 3, DefaultExpiryDays}

Call(op, urls, days) ==
    [op |-> op, urls |-> urls, days |-> days, day |-> today,
     before |-> store, result |-> FALSE]

InitCacheCalls ==
    /\ HarnessIdle /\ MainIdle /\ FetchIdle
    /\ cPc = "calls"
    /\ cLast = NoCall

\* Lines 25-36: init_cache.
CacheInitCall ==
    /\ cPc = "calls"
    /\ tableExists' = TRUE
    /\ cLast' = Call("init", <<>>, 0)
    /\ UNCHANGED <<cPc, pc, run, today, purgeDay, store, locals, logs, committed, hvars, fvars>>

\* Lines 48-58: add_to_cache(urls); sqlite raises OperationalError when the
\* table is not there.
CacheAddCall ==
    /\ cPc = "calls"
    /\ \E urls \in UrlLists :
          /\ cLast' = Call("add", urls, 0)
          /\ IF tableExists
             THEN store' = add_to_cache(store, urls, today) /\ cPc' = cPc
             ELSE store' = store /\ cPc' = "raised"
    /\ UNCHANGED <<pc, run, today, purgeDay, tableExists, locals, logs, committed, hvars, fvars>>

\* Lines 61-68: purge_expired(days).
CachePurgeCall ==
    /\ cPc = "calls"
    /\ \E days \in PurgeDays :
          /\ cLast' = Call("purge", <<>>, days)
          /\ IF tableExists
             THEN store' = purge_expired(store, days, today) /\ cPc' = cPc
             ELSE store' = store /\ cPc' = "raised"
    /\ UNCHANGED <<pc, run, today, purgeDay, tableExists, locals, logs, committed, hvars, fvars>>

\* Lines 39-45: is_cached(url).
CacheContainsCall ==
    /\ cPc = "calls"
    /\ \E u \in {"u1", "u2"} :
          IF tableExists
          THEN /\ cLast' = [Call("contains", <<u>>, 0) EXCEPT
                                !.result = is_cached(store, u)]
               /\ cPc' = cPc
          ELSE /\ cLast' = Call("contains", <<u>>, 0)
               /\ cPc' = "raised"
    /\ UNCHANGED <<mvars, hvars, fvars>>

\* Days go by between calls.
CacheDayPasses ==
    /\ cPc = "calls"
    /\ \E gap \in DayGaps :
          /\ today + gap <= MaxToday
          /\ today' = today + gap
    /\ UNCHANGED <<pc, run, purgeDay, store, tableExists, locals, logs, committed,
                   hvars, fvars, cvars>>

NextCacheCalls ==
    \/ CacheInitCall
    \/ CacheAddCall
    \/ CachePurgeCall
    \/ CacheContainsCall
    \/ CacheDayPasses

SpecCache == InitCacheCalls /\ [][NextCacheCalls]_vars

\* Any of the three passes, called on its own.
InitPasses == InitFilter \/ InitSummarize \/ InitSentiment

NextPasses == NextFilter \/ NextSummarize \/ NextSentiment

SpecPasses == InitPasses /\ [][NextPasses]_vars

(***************************************************************************)
(* main(), lines 408-479, one action per step.  Env holds what the world   *)
(* outside may answer: the configuration files, the feeds' entries, the    *)
(* oracle's answers per pass, the scraper's results, send_email's outcome. *)
(***************************************************************************)
Address == <<"a@x">>

\* config.local.yaml or config.yaml with the environment's addresses.
Config(feeds, hasUsers, hasTopics, groups, gmailTo, scraping, sentiment, days, chars) ==
    [feeds |-> feeds, hasUsers |-> hasUsers, hasTopics |-> hasTopics,
     users |-> groups, gmailTo |-> gmailTo, scraping |-> scraping,
     sentiment |-> sentiment, expiry_days |-> days, max_chars |-> chars]

\* Named groups, each with or without addresses in its environment variable.
GroupLists == SeqsUpTo({<<>>, Address}, MaxGroups)

ValidConfigs(flags, expiries, limits) ==
    {Config(TRUE, TRUE, FALSE, g, <<>>, sc, se, d, m) :
        g \in GroupLists, sc \in flags, se \in flags, d \in expiries,
        m \in limits}
    \cup {Config(TRUE, FALSE, TRUE, <<>>, to, sc, se, d, m) :
        to \in {<<>>, Address}, sc \in flags, se \in flags, d \in expiries,
        m \in limits}

InvalidConfigs ==
    {Config(FALSE, TRUE, FALSE, <<Address>>, <<>>, TRUE, TRUE, DefaultExpiryDays,
            DefaultMaxChars),
     Config(TRUE, FALSE, FALSE, <<>>, Address, TRUE, TRUE, DefaultExpiryDays,
            DefaultMaxChars)}

\* The links of the entries fetch_articles keeps, in feed order.
FeedChoices == {<<>>, <<"u1">>, <<"u1", "u2">>, <<"u2", "u1", "u2">>}

\* A max_chars setting shorter than a page's text.
SmallMaxChars == 60

\* A page whose request failed, one without a paragraph long enough, and
\* pages with one or two paragraphs that count.
FailedPage == Page("error", <<>>)

ShortPage == Page("ok", <<Filler(MinParagraph)>>)

FullPage == Page("ok", <<Filler(MinParagraph + 1)>>)

LongPage == Page("ok", <<Filler(MinParagraph + 1), Filler(3), Filler(MinParagraph + 2)>>)

\* One run against an oracle that fails, answers for one item or answers
\* for all, a scraper and a mail server that work or fail.
RichEnv ==
    [configs |-> ValidConfigs(BOOLEAN, {DefaultExpiryDays},
                              {SmallMaxChars, DefaultMaxChars})
                    \cup InvalidConfigs,
     feeds |-> FeedChoices,
     relevance |-> {Response("raise", <<>>), Response("array", <<GoodHigh>>),
                    Response("array", CompleteArray(8, 9))},
     scrapes |-> {FailedPage, ShortPage, LongPage},
     summaries |-> {SummaryResponse("text", <<Marker(1), Text(<<"x">>)>>)},
     sentiments |-> {Response("raise", <<>>),
                     Response("array", <<SEntry(JInt(1), "Positive")>>)},
     sends |-> BOOLEAN]

\* Runs in a row with any retention setting, against an oracle that fails or
\* answers for all items.
RunsEnv ==
    [configs |-> ValidConfigs({TRUE}, {1, DefaultExpiryDays}, {DefaultMaxChars}),
     feeds |-> FeedChoices,
     relevance |-> {Response("raise", <<>>), Response("array", CompleteArray(8, 9))},
     scrapes |-> {FullPage},
     summaries |-> {SummaryResponse("raise", <<>>)},
     sentiments |-> {Response("raise", <<>>)},
     sends |-> {TRUE}]

\* Days between two runs: the same day, the last day of the default
\* retention window, the day after it.
GapChoices == {0, DefaultExpiryDays, DefaultExpiryDays + 1}

\* The cache file as earlier runs left it: empty, or holding u1 cached on
\* the last day the default retention keeps, or the day before that.
StoreChoices ==
    {EmptyStore} \cup
    {("u1" :> -d) @@ EmptyStore : d \in {DefaultExpiryDays, DefaultExpiryDays + 1}}

Tuples(S, n) == {q \in SeqsUpTo(S, n) : Len(q) = n}

\* The log entries of a pass called by group g on list: one per batch, with
\* the links of the batch, the summary each article has at the call and
\* what the oracle did.
OracleCalls(g, pass, h, list, answers) ==
    [b \in 1..NumBatches(Len(list)) |->
        [group |-> g, pass |-> pass, answer |-> answers[b],
         links |-> Links(h, Batch(list, (b - 1) * batch_size)),
         excerpts |-> [k \in 1..Len(Batch(list, (b - 1) * batch_size)) |->
                         h[Batch(list, (b - 1) * batch_size)[k]].summary]]]

Init ==
    /\ HarnessIdle /\ FetchIdle /\ CacheIdle
    /\ pc = "start" /\ run = 1 /\ today = 0 /\ purgeDay = 0
    /\ store \in StoreChoices
    /\ tableExists = (store # EmptyStore)
    /\ committed = {}
    /\ ProcessStart

InitRuns ==
    /\ HarnessIdle /\ FetchIdle /\ CacheIdle
    /\ pc = "start" /\ run = 1 /\ today = 0 /\ purgeDay = 0
    /\ store = EmptyStore
    /\ tableExists = FALSE
    /\ committed = {}
    /\ ProcessStart

\* Lines 409-410: load_config and validate_config.
LoadConfig(Env) ==
    /\ pc = "start"
    /\ \E c \in Env.configs :
          /\ config' = c
          /\ pc' = IF validate_config_raises(c) THEN "aborted" ELSE "init"
    /\ UNCHANGED <<run, today, purgeDay, store, tableExists, heap, articles, fresh, users,
                   gi, relevant, si, logs, committed, hvars, fvars, cvars>>

\* Line 411: init_cache.
InitCache ==
    /\ pc = "init"
    /\ tableExists' = TRUE
    /\ pc' = "purge"
    /\ UNCHANGED <<run, today, purgeDay, store, locals, logs, committed, hvars, fvars, cvars>>

\* Line 412: purge_expired.
PurgeExpired ==
    /\ pc = "purge"
    /\ store' = purge_expired(store, config.expiry_days, today)
    /\ committed' = {[rec EXCEPT !.lapsed = @ \/ today - rec.day > config.expiry_days] :
                        rec \in committed}
    /\ purgeDay' = today
    /\ pc' = "fetch"
    /\ UNCHANGED <<run, today, tableExists, locals, logs, hvars, fvars, cvars>>

\* Lines 417-418: fetch_articles and the dict that removes duplicate links.
FetchArticles(Env) ==
    /\ pc = "fetch"
    /\ \E entries \in Env.feeds :
          /\ heap' = FetchedArticles(entries)
          /\ articles' = Dedup(heap', 1, <<>>)
    /\ pc' = "partition"
    /\ UNCHANGED <<run, today, purgeDay, store, tableExists, config, fresh, users, gi,
                   relevant, si, logs, committed, hvars, fvars, cvars>>

\* Lines 421-427: the fresh list and resolve_users.
Partition ==
    /\ pc = "partition"
    /\ fresh' = Fresh(heap, articles, store)
    /\ seenAtStart' = DOMAIN store
    /\ users' = resolve_users(config)
    /\ gi' = 1
    /\ pc' = "group"
    /\ UNCHANGED <<run, today, purgeDay, store, tableExists, config, heap, articles,
                   relevant, si, oracleLog, scrapeLog, sendLog, skipped, addCalls,
                   committed, hvars, fvars, cvars>>

\* Lines 430-436: a group without recipients is passed over.
SkipGroup ==
    /\ pc = "group"
    /\ gi <= Len(users)
    /\ ~HasRecipients(users[gi])
    /\ skipped' = skipped \cup {gi}
    /\ gi' = gi + 1
    /\ UNCHANGED <<pc, run, today, purgeDay, store, tableExists, config, heap, articles,
                   fresh, users, relevant, si, oracleLog, scrapeLog, sendLog,
                   addCalls, seenAtStart, committed, hvars, fvars, cvars>>

\* Line 438: filter_relevant_articles(fresh, topics).
FilterStep(Env) ==
    /\ pc = "group"
    /\ gi <= Len(users)
    /\ HasRecipients(users[gi])
    /\ LET input == FilterInput(fresh, relevant)
       IN  /\ \E rs \in Tuples(Env.relevance, NumBatches(Len(input))) :
                 LET r == filter_relevant_articles(heap, input, rs)
                 IN  /\ oracleLog' = oracleLog
                           \o OracleCalls(gi, "relevance", heap, input, rs)
                     /\ heap' = r.heap
                     /\ relevant' = r.result
                     /\ pc' = IF config.scraping
                                   /\ ScrapeInput(fresh, r.result) # <<>>
                               THEN "scrape" ELSE "summarize"
    /\ si' = 1
    /\ UNCHANGED <<run, today, purgeDay, store, tableExists, config, articles, fresh,
                   users, gi, scrapeLog, sendLog, skipped, addCalls, seenAtStart,
                   committed, hvars, fvars, cvars>>

\* Lines 444-454: one iteration of the loop over the relevant articles.
ScrapeOne(Env) ==
    /\ pc = "scrape"
    /\ si <= Len(ScrapeInput(fresh, relevant))
    /\ LET obj == ScrapeInput(fresh, relevant)[si]
       IN  IF heap[obj].scraped
           THEN UNCHANGED <<heap, scrapeLog>>
           ELSE \E page \in Env.scrapes :
                  LET text == scrape_article(page, config.max_chars)
                  IN  /\ heap' = [heap EXCEPT
                                     ![obj].summary = ScrapedSummary(@, text),
                                     ![obj].scraped = ScrapedFlag(text)]
                      /\ scrapeLog' = Append(scrapeLog,
                                             [group |-> gi, link |-> heap[obj].link,
                                              ok |-> text # <<>>, page |-> page,
                                              text |-> text,
                                              before |-> heap[obj].summary])
    /\ si' = si + 1
    /\ pc' = IF si + 1 > Len(ScrapeInput(fresh, relevant)) THEN "summarize"
             ELSE "scrape"
    /\ UNCHANGED <<run, today, purgeDay, store, tableExists, config, articles, fresh,
                   users, gi, relevant, oracleLog, sendLog, skipped, addCalls,
                   seenAtStart, committed, hvars, fvars, cvars>>

\* Line 457: summarize_articles(relevant, topics).
SummarizeStep(Env) ==
    /\ pc = "summarize"
    /\ \E rs \in Tuples(Env.summaries, NumBatches(Len(relevant))) :
          /\ heap' = summarize_articles(heap, relevant, rs).heap
          /\ oracleLog' = oracleLog \o OracleCalls(gi, "summary", heap, relevant, rs)
    /\ pc' = IF config.sentiment THEN "sentiment" ELSE "send"
    /\ UNCHANGED <<run, today, purgeDay, store, tableExists, config, articles, fresh,
                   users, gi, relevant, si, scrapeLog, sendLog, skipped, addCalls,
                   seenAtStart, committed, hvars, fvars, cvars>>

\* Lines 459-461: analyze_sentiment(summarized).
SentimentStep(Env) ==
    /\ pc = "sentiment"
    /\ \E rs \in Tuples(Env.sentiments, NumBatches(Len(relevant))) :
          /\ heap' = analyze_sentiment(heap, relevant, rs).heap
          /\ oracleLog' = oracleLog \o OracleCalls(gi, "sentiment", heap, relevant, rs)
    /\ pc' = "send"
    /\ UNCHANGED <<run, today, purgeDay, store, tableExists, config, articles, fresh,
                   users, gi, relevant, si, scrapeLog, sendLog, skipped, addCalls,
                   seenAtStart, committed, hvars, fvars, cvars>>

\* Lines 463-474: compile_digest and send_email, which works or raises.
SendStep(Env) ==
    /\ pc = "send"
    /\ \E ok \in Env.sends :
          /\ sendLog' = Append(sendLog,
                               [group |-> gi, ok |-> ok,
                                digest |-> compile_digest(heap, relevant)])
          /\ pc' = AfterSend(ok)
    /\ store' = StoreAfterSend(store, Links(heap, relevant), today)
    /\ gi' = gi + 1
    /\ UNCHANGED <<run, today, purgeDay, tableExists, config, heap, articles, fresh,
                   users, relevant, si, oracleLog, scrapeLog, skipped, addCalls,
                   seenAtStart, committed, hvars, fvars, cvars>>

\* Lines 476-479: add_to_cache once the loop over the groups is over.
Commit ==
    /\ pc = "group"
    /\ gi > Len(users)
    /\ LET urls == CommitUrls(heap, fresh, relevant)
       IN  /\ store' = add_to_cache(store, urls, today)
           /\ addCalls' = Append(addCalls, [urls |-> urls, day |-> today])
    /\ pc' = "done"
    /\ UNCHANGED <<run, today, purgeDay, tableExists, locals, oracleLog, scrapeLog, sendLog,
                   skipped, seenAtStart, committed, hvars, fvars, cvars>>

\* What the add_to_cache calls of this run stored.  lapsed tells whether a
\* later run has started more than its retention setting after the day.
CommittedNow ==
    UNION {{[url |-> addCalls[i].urls[j], day |-> addCalls[i].day,
             lapsed |-> FALSE] :
               j \in 1..Len(addCalls[i].urls)} : i \in 1..Len(addCalls)}

\* The positions of main() between purge_expired and add_to_cache.
AfterPurge == {"fetch", "partition", "group", "scrape", "summarize", "sentiment", "send"}

\* Midnight passes while main() runs: fetch_articles waits on the network and
\* every pass sleeps after each call (lines 225, 282, 332), so the
\* datetime.now() of add_to_cache (line 51, called at line 477) reads a later
\* date than the one purge_expired read (line 64, called at line 412).  A
\* run lasts at most MaxRunDays days beyond the day of its purge.
DateChanges ==
    /\ pc \in AfterPurge
    /\ today < purgeDay + MaxRunDays
    /\ today' = today + 1
    /\ UNCHANGED <<pc, run, purgeDay, store, tableExists, locals, logs, committed,
                   hvars, fvars, cvars>>

\* The process has ended; days later main() is started again.
NextRun ==
    /\ pc \in {"done", "aborted"}
    /\ run < MaxRuns
    /\ \E gap \in GapChoices : today' = today + gap
    /\ run' = run + 1
    /\ committed' = committed \cup CommittedNow
    /\ pc' = "start"
    /\ config' = NoConfig /\ heap' = <<>> /\ articles' = <<>> /\ fresh' = <<>>
    /\ users' = <<>> /\ gi' = 0 /\ relevant' = <<>> /\ si' = 0
    /\ oracleLog' = <<>> /\ scrapeLog' = <<>> /\ sendLog' = <<>>
    /\ skipped' = {} /\ addCalls' = <<>> /\ seenAtStart' = {}
    /\ UNCHANGED <<purgeDay, store, tableExists, hvars, fvars, cvars>>

Run(Env) ==
    \/ LoadConfig(Env)
    \/ InitCache
    \/ PurgeExpired
    \/ FetchArticles(Env)
    \/ Partition
    \/ SkipGroup
    \/ FilterStep(Env)
    \/ ScrapeOne(Env)
    \/ SummarizeStep(Env)
    \/ SentimentStep(Env)
    \/ SendStep(Env)
    \/ Commit
    \/ DateChanges

Next == Run(RichEnv)

Spec == Init /\ [][Next]_vars

NextRuns == Run(RunsEnv) \/ NextRun

SpecRuns == InitRuns /\ [][NextRuns]_vars

\* The batch (1-based) and the 1-based position in it of the k-th article.
BatchOf(k) == ((k - 1) \div batch_size) + 1

PosOf(k) == ((k - 1) % batch_size) + 1

InOut(obj) == \E k \in 1..Len(hOut) : hOut[k] = obj

\* The stepwise run and the function applied at once agree.
FilterStepsAgree ==
    hPc = "done" =>
        LET r == filter_relevant_articles(hHeap0, hArticles, hLog)
        IN  r.heap = hHeap /\ r.result = hOut


(***************************************************************************)
(* Claims about the relevance pass, checked under SpecFilter.              *)
(***************************************************************************)

\* The oracle's answer for article k's batch has an entry for k's position
\* with relevant = true and score >= 7.
HasAdmittingEntry(k) ==
    LET r == hLog[BatchOf(k)]
    IN  /\ r.kind = "array"
        /\ \E j \in 1..Len(r.entries) :
              LET e == r.entries[j]
              IN  /\ e.isDict
                  /\ e.id = JInt(PosOf(k))
                  /\ e.relevant = JTrue
                  /\ e.score.t = "int"
                  /\ e.score.v >= 7

\* C7: every item in the output of filter_relevant_articles has, in the
\* oracle's answer for its batch, an entry for its 1-based position with
\* relevant = true AND score >= 7; relevant = true with score 6, or
\* score >= 7 with relevant = false, does not put the item in the output.
C7_AdmitsOnlyRelevantAndHigh ==
    hPc = "done" => \A k \in 1..Len(hArticles) : InOut(k) => HasAdmittingEntry(k)

\* C7 witness: the first batch was answered with a relevant = true, score 6
\* entry for item 1 and a score 9, relevant = false entry for item 2, the
\* second batch with a good entry; only the item of the second batch is out.
C7_Witness ==
    /\ hPc = "done"
    /\ Len(hLog) = 2
    /\ hLog[1] = Response("array", <<RelevantButLow, HighButIrrelevant>>)
    /\ hLog[2] = Response("array", <<GoodHigh>>)
    /\ hOut = <<batch_size + 1>>

\* An entry that is not a dict of an integer id, an integer score and a
\* boolean relevant.
Malformed(e) ==
    ~e.isDict \/ e.id.t # "int" \/ e.score.t # "int" \/ e.relevant.t # "bool"

\* The batch's call raised, or its text held no array or invalid JSON, or the
\* array holds a malformed entry at some position.
BatchUnusable(r) ==
    \/ r.kind \in {"raise", "noarray", "badjson"}
    \/ \E j \in 1..Len(r.entries) : Malformed(r.entries[j])

\* C8: the relevance pass is fail-closed per batch: no item of a batch whose
\* call raised or whose answer is not the expected array (no array, invalid
\* JSON, a malformed entry at any position) is in the output.
C8_FailClosedPerBatch ==
    hPc = "done" =>
        \A k \in 1..Len(hArticles) : BatchUnusable(hLog[BatchOf(k)]) => ~InOut(k)

\* C9: the output of the relevance pass is ordered by relevance_score
\* non-increasing and has at most 12 items.
C9_SortedAndCapped ==
    hPc = "done" =>
        /\ Len(hOut) <= 12
        /\ \A k \in 1..(Len(hOut) - 1) :
              ScoreKey(hHeap, hOut[k]) >= ScoreKey(hHeap, hOut[k + 1])

\* C9 witness: more than 12 items were admitted, with different scores, the
\* lower ones admitted first, and the output holds 12 of them.
C9_Witness ==
    /\ hPc = "done"
    /\ Len(hRelevant) > 12
    /\ Len(hOut) = 12
    /\ ScoreKey(hHeap, hRelevant[1]) < ScoreKey(hHeap, hRelevant[2])
    /\ ScoreKey(hHeap, hOut[1]) > ScoreKey(hHeap, hOut[12])


(***************************************************************************)
(* Claims about the summarization pass, checked under SpecSummarize.       *)
(***************************************************************************)

\* The stepwise run and the function applied at once agree.
SummarizeStepsAgree ==
    hPc = "done" => summarize_articles(hHeap0, hArticles, hLog).heap = hHeap

\* C10: after summarize_articles returns, every input item has a non-empty
\* bullets value, whatever the oracle did on its batch (the call raised, no
\* markers, markers for some positions only, a marker followed by no text).
C10_BulletsNonEmpty ==
    hPc = "done" =>
        \A k \in 1..Len(hArticles) :
            hHeap[hArticles[k]].hasBullets /\ hHeap[hArticles[k]].bullets # <<>>

(***************************************************************************)
(* Claims about the sentiment pass, checked under SpecSentiment, and about *)
(* the three passes, checked under SpecPasses.                             *)
(***************************************************************************)

\* The stepwise run and the function applied at once agree.
SentimentStepsAgree ==
    hPc = "done" => analyze_sentiment(hHeap0, hArticles, hLog).heap = hHeap

\* C11: after analyze_sentiment returns, every input item carries a
\* sentiment that is Positive, Negative or Neutral, whatever the oracle did
\* on its batch (the call raised, no array, the item's id omitted, another
\* value).
C11_SentimentAlwaysSet ==
    hPc = "done" =>
        \A k \in 1..Len(hArticles) :
            hHeap[hArticles[k]].sentiment \in {"Positive", "Negative", "Neutral"}

\* C12: no pass lets an error out, whatever the oracle did: every batch of
\* the list is called, also after a batch that raised, and the pass returns.
C12_PassesNeverRaise ==
    /\ hPc # "raised"
    /\ hPc \in {"filter", "summarize", "sentiment"} => hI = batch_size * Len(hLog)
    /\ hPc = "done" => Len(hLog) = NumBatches(Len(hArticles))

\* The relevance pass returned an item of its second batch after the call
\* for its first batch raised.
C12_Witness ==
    /\ hPc = "done"
    /\ Len(hLog) = 2
    /\ hLog[1].kind = "raise" /\ hLog[2].kind = "array"
    /\ \E k \in 1..Len(hOut) : BatchOf(hOut[k]) = 2

(***************************************************************************)
(* Properties of main().                                                   *)
(***************************************************************************)
Range(q) == {q[k] : k \in 1..Len(q)}

\* The steps of main() from the loop over the groups on.
GroupPhase == {"group", "scrape", "summarize", "sentiment", "send", "done"}

\* The group has been attempted: passed over, or its digest given to send_email.
Attempted(g) == g \in skipped \/ \E k \in 1..Len(sendLog) : sendLog[k].group = g

\* The urls of the run's articles that were not in the cache when the run
\* partitioned them, in feed order.
UnseenLinks == SelectSeq(Links(heap, articles), LAMBDA u : u \notin seenAtStart)

SendsFor(g) == {k \in 1..Len(sendLog) : sendLog[k].group = g}

CallsFor(g, pass) ==
    {k \in 1..Len(oracleLog) : oracleLog[k].group = g /\ oracleLog[k].pass = pass}

\* C1: a run whose configuration validates never stops before add_to_cache;
\* add_to_cache is called once, when every group has been passed over or had
\* its digest given to send_email, with the links of all articles that were
\* not cached at the start of the run, selected by a group or not.
C1_CommitOnceAfterAllGroups ==
    /\ Len(addCalls) <= 1
    /\ (pc = "done") = (Len(addCalls) = 1)
    /\ pc = "aborted" => gi = 0 /\ validate_config_raises(config)
    /\ pc \notin {"done", "aborted"} => ENABLED Next
    /\ addCalls # <<>> =>
          /\ \A g \in 1..Len(users) : Attempted(g)
          /\ addCalls[1].urls = UnseenLinks
          /\ \A u \in Range(addCalls[1].urls) : u \in DOMAIN store

\* A run with a cached article and a fresh one that no group selected, whose
\* first group's delivery failed and whose second group was passed over.
C1_Witness ==
    /\ pc = "done"
    /\ Links(heap, articles) = <<"u1", "u2">>
    /\ seenAtStart = {"u1"}
    /\ addCalls = <<[urls |-> <<"u2">>, day |-> today]>>
    /\ Len(users) = 2 /\ skipped = {2}
    /\ Len(sendLog) = 1 /\ ~sendLog[1].ok /\ sendLog[1].digest.noArticles

\* The commits no run since has started outside the retention window of.
InWindow == {rec \in committed : ~rec.lapsed}

\* C2: a url committed by an earlier run, when this run and every run since
\* the commit started within the retention window, is not fresh, is in no
\* oracle call and in no digest; when that holds for every article of the
\* feeds, nothing is fresh and every digest carries the no-articles message.
C2_CommittedNotFreshAgain ==
    pc \in GroupPhase =>
      /\ \A rec \in InWindow :
            /\ rec.url \notin Range(Links(heap, fresh))
            /\ \A k \in 1..Len(oracleLog) : rec.url \notin Range(oracleLog[k].links)
            /\ \A k \in 1..Len(sendLog) :
                  \A j \in 1..Len(sendLog[k].digest.items) :
                      sendLog[k].digest.items[j].link # rec.url
      /\ Range(Links(heap, articles)) \subseteq {rec.url : rec \in InWindow} =>
            /\ fresh = <<>>
            /\ oracleLog = <<>>
            /\ \A k \in 1..Len(sendLog) : sendLog[k].digest.noArticles

\* The first run committed its two articles after midnight; the second run
\* starts on the last day of the retention window of that commit (a day
\* more than the window after the first run started), over feeds with the
\* same two articles: a digest is sent without articles.
C2_Witness ==
    /\ run = 2 /\ pc = "done"
    /\ purgeDay = DefaultExpiryDays + 1 /\ config.expiry_days = DefaultExpiryDays
    /\ \A rec \in committed : rec.day = 1
    /\ Range(Links(heap, articles)) = {"u1", "u2"}
    /\ {rec.url : rec \in InWindow} = {"u1", "u2"}
    /\ fresh = <<>>
    /\ sendLog # <<>> /\ sendLog[1].digest.noArticles

\* C3: within a run scrape_article is called at most once per article, and
\* an article it was called for is marked scraped, whether text came back
\* or not.
C3_ScrapedAtMostOnce ==
    /\ \A j, k \in 1..Len(scrapeLog) : scrapeLog[j].link = scrapeLog[k].link => j = k
    /\ \A k \in 1..Len(scrapeLog) :
          \A a \in Range(articles) :
              heap[a].link = scrapeLog[k].link => heap[a].scraped

\* Two groups selected the same article; the scrape for the first group
\* failed and no scrape was made for the second.
C3_Witness ==
    /\ pc = "done"
    /\ Len(sendLog) = 2
    /\ \A k \in 1..2 : \E j \in 1..Len(sendLog[k].digest.items) :
                           sendLog[k].digest.items[j].link = "u1"
    /\ \E k \in 1..Len(scrapeLog) :
          /\ scrapeLog[k].group = 1 /\ scrapeLog[k].link = "u1"
          /\ ~scrapeLog[k].ok

\* C4: a send_email that raised never stops the run; when the run is over,
\* every later group with recipients has had its relevance calls and its
\* own delivery attempt, and add_to_cache has been called.
C4_SendFailureIsolated ==
    /\ pc = "aborted" => sendLog = <<>>
    /\ pc = "done" =>
          \A k \in 1..Len(sendLog) :
              ~sendLog[k].ok =>
                /\ Len(addCalls) = 1
                /\ \A g \in (sendLog[k].group + 1)..Len(users) :
                      users[g].emails # <<>> =>
                        /\ SendsFor(g) # {}
                        /\ Cardinality(CallsFor(g, "relevance"))
                             = NumBatches(Len(fresh))

\* The first group's delivery failed; the second group's digest, with an
\* article, was delivered and the run committed.
C4_Witness ==
    /\ pc = "done"
    /\ Len(sendLog) = 2
    /\ ~sendLog[1].ok /\ sendLog[2].ok
    /\ sendLog[2].group = 2 /\ ~sendLog[2].digest.noArticles
    /\ Len(addCalls) = 1

\* C5: for a group without recipients there is no oracle call, no scrape
\* and no delivery; the run does not stop, and when it is over the later
\* groups with recipients have had their relevance calls and delivery.
C5_EmptyGroupSkipped ==
    pc \in GroupPhase =>
      \A g \in 1..Len(users) :
          users[g].emails = <<>> =>
            /\ \A k \in 1..Len(oracleLog) : oracleLog[k].group # g
            /\ \A k \in 1..Len(scrapeLog) : scrapeLog[k].group # g
            /\ SendsFor(g) = {}
            /\ pc = "done" =>
                  /\ g \in skipped
                  /\ \A h \in (g + 1)..Len(users) :
                        users[h].emails # <<>> =>
                          /\ SendsFor(h) # {}
                          /\ Cardinality(CallsFor(h, "relevance"))
                               = NumBatches(Len(fresh))

\* The first group has no recipients; the second had an article scraped,
\* summarized and delivered.
C5_Witness ==
    /\ pc = "done"
    /\ Len(users) = 2
    /\ users[1].emails = <<>> /\ users[2].emails # <<>>
    /\ skipped = {1}
    /\ scrapeLog # <<>> /\ scrapeLog[1].group = 2
    /\ CallsFor(2, "summary") # {}
    /\ Len(sendLog) = 1 /\ sendLog[1].ok /\ ~sendLog[1].digest.noArticles

\* C6: no group is given to send_email twice; when the run is over every
\* group with recipients has been given to it once and no other group has;
\* a configuration without a users key resolves to one group, which is
\* given to it once when GMAIL_TO names a recipient.
C6_OneDeliveryPerGroup ==
    /\ \A j, k \in 1..Len(sendLog) : sendLog[j].group = sendLog[k].group => j = k
    /\ pc \in GroupPhase /\ ~config.hasUsers => Len(users) = 1
    /\ pc = "done" =>
          /\ \A g \in 1..Len(users) :
                Cardinality(SendsFor(g)) = IF users[g].emails # <<>> THEN 1 ELSE 0
          /\ ~config.hasUsers /\ config.gmailTo # <<>> => Len(sendLog) = 1

\* Two named groups with recipients, each delivered its digest once.
C6_Witness ==
    /\ pc = "done"
    /\ config.hasUsers /\ Len(users) = 2
    /\ \A g \in 1..2 : users[g].emails # <<>>
    /\ Len(sendLog) = 2
    /\ sendLog[1].group = 1 /\ sendLog[2].group = 2
    /\ sendLog[1].ok /\ sendLog[2].ok

\* No two different items of the list have the same url.
UniqueLinks(h, list) ==
    \A j, k \in 1..Len(list) : h[list[j]].link = h[list[k]].link => list[j] = list[k]

\* C14: from the partition on, the run's items, the fresh ones, the ones a
\* group's stages work on and every batch given to the oracle hold no two
\* items with the same url.
C14_UniqueUrlsDownstream ==
    pc \in {"partition"} \cup GroupPhase =>
      /\ \A j, k \in 1..Len(articles) :
            heap[articles[j]].link = heap[articles[k]].link => j = k
      /\ \A j, k \in 1..Len(fresh) :
            heap[fresh[j]].link = heap[fresh[k]].link => j = k
      /\ UniqueLinks(heap, relevant)
      /\ \A c \in 1..Len(oracleLog) :
            \A j, k \in 1..Len(oracleLog[c].links) :
                oracleLog[c].links[j] = oracleLog[c].links[k] => j = k

\* Two feed entries had the url u2; the run went on with two items, both
\* fresh and both delivered to a group.
C14_Witness ==
    /\ pc = "done"
    /\ Len(heap) = 3 /\ heap[1].link = heap[3].link
    /\ Len(articles) = 2 /\ Len(fresh) = 2
    /\ sendLog # <<>> /\ Len(sendLog[1].digest.items) = 2

(***************************************************************************)
(* Claims about fetch_articles, checked under SpecFetch.                   *)
(***************************************************************************)

\* The stepwise run and the function applied at once agree.
FetchStepsAgree ==
    fPc = "done" => fetch_articles(fLog, fHours) = fArticles

EntryAt(f, j) == fLog[f].entries[j]

\* Processing the j-th entry of the f-th feed raises.
RaisesAt(f, j) ==
    /\ IncludeEntry(ParsePublished(EntryAt(f, j).published), Now - fHours)
    /\ EntryRaisesInFetch(EntryAt(f, j))

\* The f-th feed was retrieved and its entries up to the j-th were
\* processed without an exception.
Reached(f, j) == fLog[f].kind = "ok" /\ \A i \in 1..j : ~RaisesAt(f, i)

\* The returned items that come from the j-th entry of the f-th feed.
ItemsOf(f, j) ==
    {k \in 1..Len(fArticles) : fOrigin[k] = [feed |-> f, entry |-> j]}

\* C13: the list fetch_articles returns holds no two items with the same
\* url, also when two feeds return an entry with that url.
C13_FetchUniqueUrls ==
    fPc = "done" =>
        \A j, k \in 1..Len(fArticles) :
            fArticles[j].link = fArticles[k].link => j = k

\* C15: an entry without published_parsed, or with one that cannot be made
\* a datetime, is returned for every lookback window, its published field
\* being the Unknown sentinel.
C15_UndatedIncluded ==
    fPc = "done" =>
        \A f \in 1..Len(fLog) : \A j \in 1..Len(fLog[f].entries) :
            Reached(f, j) /\ EntryAt(f, j).published.t # "time" =>
                \E k \in ItemsOf(f, j) :
                    /\ fArticles[k].link = EntryAt(f, j).link
                    /\ fArticles[k].published = UnknownDate

\* With a window of one hour, an entry whose date datetime() rejects was
\* returned with the Unknown sentinel.
C15_Witness ==
    /\ fPc = "done" /\ fHours = 1
    /\ \E k \in 1..Len(fArticles) :
          /\ EntryAt(fOrigin[k].feed, fOrigin[k].entry).published.t = "bad"
          /\ fArticles[k].published = UnknownDate

\* C16: an entry with a date is returned exactly when the date lies in
\* [now - hours, now]: older entries and entries dated after now are not.
C16_WithinWindowOnly ==
    fPc = "done" =>
        \A f \in 1..Len(fLog) : \A j \in 1..Len(fLog[f].entries) :
            Reached(f, j) /\ EntryAt(f, j).published.t = "time" =>
                (ItemsOf(f, j) # {}) =
                    (/\ Now - fHours <= EntryAt(f, j).published.v
                     /\ EntryAt(f, j).published.v <= Now)

\* C17: every returned item has a summary of at most 500 characters.
C17_ExcerptAtMost500 ==
    \A k \in 1..Len(fArticles) : Len(fArticles[k].summary) <= 500

\* An entry with a summary of 501 characters was returned with 500 of them.
C17_Witness ==
    /\ fPc = "done"
    /\ \E k \in 1..Len(fArticles) :
          /\ Len(EntryAt(fOrigin[k].feed, fOrigin[k].entry).summary.v) = 501
          /\ Len(fArticles[k].summary) = 500

\* C18: a feed whose retrieval or entry processing raised has no item in
\* the list returned, and fetch_articles returns the items of the others.
C18_FailingSourceContributesNothing ==
    fPc = "done" =>
        \A f \in 1..Len(fLog) :
            ~Reached(f, Len(fLog[f].entries)) =>
                \A k \in 1..Len(fArticles) : fOrigin[k].feed # f

(***************************************************************************)
(* Claims about the cache functions, checked under SpecCache.              *)
(***************************************************************************)

\* C19: after add_to_cache(urls) every url of the list is cached; a url that
\* was there keeps its row and its date, a call with such a url does not
\* raise, and a call with only such urls leaves the table as it was.
C19_AddIdempotent ==
    cLast.op = "add" =>
      /\ (\E u \in Range(cLast.urls) : u \in DOMAIN cLast.before) => cPc # "raised"
      /\ cPc # "raised" =>
            /\ \A u \in Range(cLast.urls) : is_cached(store, u)
            /\ \A u \in DOMAIN cLast.before :
                  u \in DOMAIN store /\ store[u] = cLast.before[u]
            /\ \A u \in DOMAIN store \ DOMAIN cLast.before :
                  u \in Range(cLast.urls) /\ store[u] = cLast.day
            /\ Range(cLast.urls) \subseteq DOMAIN cLast.before => store = cLast.before

\* u1, cached on an earlier day, was added again together with the new u2:
\* u1 kept its date and u2 got the day of the call.
C19_Witness ==
    /\ cLast.op = "add" /\ cPc = "calls"
    /\ cLast.urls = <<"u1", "u2">>
    /\ DOMAIN cLast.before = {"u1"}
    /\ cLast.before["u1"] < cLast.day
    /\ store["u1"] = cLast.before["u1"] /\ store["u2"] = cLast.day

\* C20: purge_expired(days) deletes the rows cached before today - days and
\* no other row; the rows left keep their dates.
C20_PurgeStrictlyOlder ==
    cLast.op = "purge" /\ cPc # "raised" =>
      /\ DOMAIN store =
            {u \in DOMAIN cLast.before : cLast.before[u] >= cLast.day - cLast.days}
      /\ \A u \in DOMAIN store : store[u] = cLast.before[u]

\* purge_expired(7) deleted a row cached 10 days before and kept the row
\* cached 7 days before.
C20_Witness ==
    /\ cLast.op = "purge" /\ cPc = "calls" /\ cLast.days = 7
    /\ DOMAIN cLast.before = {"u1", "u2"}
    /\ cLast.before["u1"] = cLast.day - 10
    /\ cLast.before["u2"] = cLast.day - 7
    /\ DOMAIN store = {"u2"}

\* C21: is_cached never raises: it returns FALSE for a url that is not in
\* the table and also when the table has not been created yet, and TRUE for
\* a url that is in the table.
C21_ContainsNeverRaises ==
    cLast.op = "contains" =>
      /\ cPc # "raised"
      /\ cLast.result = (cLast.urls[1] \in DOMAIN cLast.before)

\* The urls earlier runs committed, each commit more than the retention
\* setting of this run before the day its purge_expired read (the date may
\* have gone on since then).
ExpiredUrls ==
    {rec.url : rec \in committed} \
        {rec.url : rec \in {r \in committed : purgeDay - r.day <= config.expiry_days}}

\* C22: purge_expired runs before the first is_cached call: from the fetch
\* on the table holds no row older than the retention window, and an
\* article whose url was committed longer ago than that is fresh in this run.
C22_PurgeBeforeContains ==
    /\ pc \in {"fetch", "partition"} \cup GroupPhase =>
          \A u \in DOMAIN store : store[u] >= purgeDay - config.expiry_days
    /\ pc \in GroupPhase =>
          \A u \in Range(Links(heap, articles)) \cap ExpiredUrls :
              u \notin seenAtStart /\ u \in Range(Links(heap, fresh))

\* The second run starts 8 days after the first committed u1, with the
\* retention of 7 days: u1 is fresh again and is delivered.
C22_Witness ==
    /\ run = 2 /\ pc = "done"
    /\ purgeDay = DefaultExpiryDays + 1 /\ config.expiry_days = DefaultExpiryDays
    /\ "u1" \in ExpiredUrls
    /\ "u1" \in Range(Links(heap, fresh))
    /\ \E k \in 1..Len(sendLog) : \E j \in 1..Len(sendLog[k].digest.items) :
          sendLog[k].digest.items[j].link = "u1"

\* C23: in each pass one time.sleep follows every batch's oracle call, the
\* calls that raised or gave an unusable answer included: whenever the pass
\* is about to call the oracle again, or returns, as many sleeps as calls
\* have been made.
C23_DelayAfterEveryBatch ==
    hPc \in {"filter", "summarize", "sentiment", "done"} => hSleeps = Len(hLog)

\* The sentiment pass returned after two batches, the first call raised and
\* the second gave no array: two sleeps were made.
C23_Witness ==
    /\ hPc = "done"
    /\ hHeap0 # <<>> /\ hHeap0[1].hasBullets
    /\ Len(hLog) = 2
    /\ hLog[1].kind = "raise" /\ hLog[2].kind = "noarray"
    /\ hSleeps = 2

\* A step main() takes, as opposed to the date changing while it waits.
MainStep == today' = today

\* C24: a group with recipients whose relevance pass selected nothing goes on
\* to the summary step with the empty list, through the passes without an
\* oracle call, and to send_email with a digest that carries the no-articles
\* message and no article; after that the loop is at the next group.  The
\* steps are those of main(); midnight passing is none of them.
C24_EmptyDigestStillSent ==
    [][MainStep =>
       /\ (pc = "group" /\ pc' \notin {"group", "done"} /\ relevant' = <<>>) =>
             /\ pc' = "summarize"
             /\ gi' = gi /\ HasRecipients(users[gi])
       /\ (pc \in {"summarize", "sentiment"} /\ relevant = <<>>) =>
             /\ pc' \in {"sentiment", "send"}
             /\ relevant' = <<>> /\ gi' = gi
             /\ oracleLog' = oracleLog
       /\ (pc = "send" /\ relevant = <<>>) =>
             /\ Len(sendLog') = Len(sendLog) + 1
             /\ sendLog'[Len(sendLog')].group = gi
             /\ sendLog'[Len(sendLog')].digest.noArticles
             /\ sendLog'[Len(sendLog')].digest.items = <<>>
             /\ pc' = "group" /\ gi' = gi + 1]_vars

\* The first group's relevance call raised and its digest without articles
\* was delivered; the second group's digest has an article.
C24_Witness ==
    /\ pc = "done"
    /\ Len(users) = 2 /\ skipped = {}
    /\ Len(sendLog) = 2
    /\ sendLog[1].group = 1 /\ sendLog[1].digest.noArticles
    /\ sendLog[1].digest.items = <<>>
    /\ \A k \in 1..Len(oracleLog) : oracleLog[k].group = 1 => oracleLog[k].pass = "relevance"
    /\ sendLog[2].group = 2 /\ sendLog[2].digest.items # <<>>

\* The group's call of filter_relevant_articles has been made.
Processed(g) ==
    SendsFor(g) # {} \/ (g = gi /\ pc \in {"scrape", "summarize", "sentiment", "send"})

\* The index in oracleLog before the first relevance call of group g.
FirstCall(g) == (CHOOSE k \in CallsFor(g, "relevance") :
                    \A j \in CallsFor(g, "relevance") : k <= j) - 1

\* C25: the relevance calls of every group whose filter_relevant_articles
\* call has been made carry, batch by batch and in order, the links of the
\* whole fresh list of the run, which are the uncached links in feed order,
\* whatever the groups before it selected.
C25_EveryGroupGetsFreshSet ==
    pc \in GroupPhase =>
      /\ Links(heap, fresh) = UnseenLinks
      /\ \A g \in 1..Len(users) :
            Processed(g) =>
              /\ Cardinality(CallsFor(g, "relevance")) = NumBatches(Len(fresh))
              /\ \A b \in 1..NumBatches(Len(fresh)) :
                    /\ FirstCall(g) + b \in CallsFor(g, "relevance")
                    /\ oracleLog[FirstCall(g) + b].links
                         = Links(heap, Batch(fresh, (b - 1) * batch_size))

\* Two fresh articles; the first group's digest has one of them and the
\* second group's relevance call was still made with both, in feed order.
C25_Witness ==
    /\ pc = "done"
    /\ Links(heap, fresh) = <<"u2", "u1">>
    /\ Len(sendLog) = 2
    /\ sendLog[1].group = 1 /\ Len(sendLog[1].digest.items) = 1
    /\ sendLog[1].digest.items[1].link = "u2"
    /\ \E k \in CallsFor(2, "relevance") : oracleLog[k].links = <<"u2", "u1">>
    /\ sendLog[2].group = 2 /\ Len(sendLog[2].digest.items) = 2

\* C26: when the oracle call of a batch raised, an article of that batch that
\* had no sentiment has Neutral, and an article of that batch that had one
\* has the sentiment it had.
C26_FailedCallKeepsSentiment ==
    hPc \in {"sentiment", "done"} =>
        \A k \in 1..Len(hArticles) :
            (BatchOf(k) <= Len(hLog) /\ hLog[BatchOf(k)].kind = "raise") =>
                hHeap[hArticles[k]].sentiment =
                    IF hHeap0[hArticles[k]].sentiment = "" THEN "Neutral"
                    ELSE hHeap0[hArticles[k]].sentiment

\* The call of the first batch raised: the article that came in as Positive
\* is Positive and the one that came in without a sentiment is Neutral.
C26_Witness ==
    /\ hPc = "done"
    /\ Len(hArticles) >= 2
    /\ hHeap0[1].sentiment = "Positive" /\ hHeap0[2].sentiment = ""
    /\ hLog[1].kind = "raise"
    /\ hHeap[1].sentiment = "Positive" /\ hHeap[2].sentiment = "Neutral"

\* The request failed or no paragraph of the page was long enough.
ScrapeFailed(page) ==
    page.kind = "error" \/ \A j \in 1..Len(page.paragraphs) :
                               Len(page.paragraphs[j]) <= MinParagraph

\* C27: for every scrape_article call of the run: when it returned text, the
\* article's summary is that text and is at most max_chars long; when the
\* request failed or nothing was extracted, the summary is what it was
\* before the call.
C27_ScrapeReplacesOrKeeps ==
    \A k \in 1..Len(scrapeLog) :
        \A a \in Range(articles) :
            heap[a].link = scrapeLog[k].link =>
              /\ scrapeLog[k].text # <<>> =>
                    /\ heap[a].summary = scrapeLog[k].text
                    /\ Len(heap[a].summary) <= config.max_chars
              /\ ScrapeFailed(scrapeLog[k].page) =>
                    /\ scrapeLog[k].text = <<>>
                    /\ heap[a].summary = scrapeLog[k].before

\* With max_chars below the length of the page's text, one article's summary
\* is the first max_chars characters of it; the other article's page had no
\* paragraph long enough and its summary is the feed's.
C27_Witness ==
    /\ pc = "done"
    /\ config.max_chars = SmallMaxChars
    /\ Len(scrapeLog) = 2
    /\ scrapeLog[1].page = LongPage
    /\ scrapeLog[2].page = ShortPage
    /\ \E a, b \in Range(articles) :
          /\ heap[a].link = scrapeLog[1].link
          /\ Len(heap[a].summary) = SmallMaxChars
          /\ heap[a].summary # scrapeLog[1].before
          /\ heap[b].link = scrapeLog[2].link
          /\ heap[b].summary = scrapeLog[2].before
          /\ heap[b].summary # <<>>

\* The configuration has no feeds, or has no topics and no group (no users
\* key, or a users key with an empty list).
LacksRequired(c) ==
    ~c.feeds \/ (~c.hasTopics /\ (~c.hasUsers \/ c.users = <<>>))

\* C28: a run whose configuration has no feeds, or neither topics nor any
\* group (an empty users list included), is aborted once the configuration
\* is loaded, with the cache file as it was found (no table created, no
\* expired row removed, no row added), nothing fetched and nothing sent.
C28_InvalidConfigAborts ==
    (pc # "start" /\ LacksRequired(config)) =>
        /\ pc = "aborted"
        /\ tableExists = (store # EmptyStore)
        /\ store \in StoreChoices
        /\ heap = <<>> /\ sendLog = <<>> /\ addCalls = <<>>

\* The position of obj in the list the pass was given.
InputPos(obj) == CHOOSE k \in 1..Len(hArticles) : hArticles[k] = obj

\* C29: two different items of the output of filter_relevant_articles that
\* have the same relevance_score are in the order they had in the input
\* list, in whatever order the oracle's array listed them.
C29_TiesKeepInputOrder ==
    hPc = "done" =>
        \A i, j \in 1..Len(hOut) :
            (/\ i < j
             /\ hOut[i] # hOut[j]
             /\ ScoreKey(hHeap, hOut[i]) = ScoreKey(hHeap, hOut[j]))
                => InputPos(hOut[i]) < InputPos(hOut[j])

\* C30: every item of the output of filter_relevant_articles carries a
\* relevance_score that is an integer from 1 to 10, whatever score the
\* oracle's answer gave for it.
C30_ScoreInRange ==
    hPc = "done" =>
        \A k \in 1..Len(hOut) :
            /\ hHeap[hOut[k]].relevance_score.t = "int"
            /\ 1 <= hHeap[hOut[k]].relevance_score.v
            /\ hHeap[hOut[k]].relevance_score.v <= 10

\* The first entry, in feed order, that fetch_articles returned with the
\* link of object a.
FirstSeen(a) ==
    CHOOSE k \in 1..Len(heap) :
        /\ heap[k].link = heap[a].link
        /\ \A j \in 1..(k - 1) : heap[j].link # heap[a].link

\* C31: the one item main() keeps for a url that several fetched entries
\* share carries the source of the first of those entries in feed order.
C31_DedupKeepsFirstSeen ==
    pc \in {"partition"} \cup GroupPhase =>
        \A k \in 1..Len(articles) :
            heap[articles[k]].source = heap[FirstSeen(articles[k])].source

\* The steps of main() after purge_expired and before add_to_cache.
BeforeCommit == {"fetch", "partition", "group", "scrape", "summarize", "sentiment", "send"}

\* C32: no step of the run between purge_expired and add_to_cache changes
\* the cache file, so wherever the run stops before add_to_cache the file
\* holds what purge_expired left and none of the run's fresh urls.
C32_NoWriteBeforeCommit ==
    [][/\ (pc \in BeforeCommit /\ pc' \in BeforeCommit) =>
             store' = store /\ tableExists' = tableExists
       /\ (pc' \in BeforeCommit \ {"fetch", "partition"}) =>
             /\ DOMAIN store' = seenAtStart'
             /\ \A u \in Range(Links(heap', fresh')) : u \notin DOMAIN store']_vars

\* The first group's digest with the fresh article u2 has been delivered and
\* the second group is next: the file still holds u1 alone.
C32_Witness ==
    /\ pc = "group" /\ gi = 2 /\ Len(users) = 2
    /\ Len(sendLog) = 1 /\ sendLog[1].ok
    /\ \E j \in 1..Len(sendLog[1].digest.items) : sendLog[1].digest.items[j].link = "u2"
    /\ "u2" \in Range(Links(heap, fresh))
    /\ DOMAIN store = {"u1"}

\* The answer for article k's batch has an entry whose id is k's 1-based
\* position in that batch.
EntryForPosition(k) ==
    /\ hLog[BatchOf(k)].kind = "array"
    /\ \E j \in 1..Len(hLog[BatchOf(k)].entries) :
          /\ hLog[BatchOf(k)].entries[j].isDict
          /\ hLog[BatchOf(k)].entries[j].id = JInt(PosOf(k))

\* C33: in the relevance and the sentiment pass an article's
\* relevance_score, its place in the selection or its sentiment changes only
\* through an entry of its own batch's answer whose id is its 1-based
\* position there (the Neutral default of a batch that raised apart); an
\* entry with no id or id 0, negative or above the batch size changes
\* nothing, and no entry reaches an article of another batch.
C33_EntryTouchesOwnPositionOnly ==
    \A k \in 1..Len(hArticles) :
        LET before == hHeap0[hArticles[k]]
            after == hHeap[hArticles[k]]
        IN  /\ (after.relevance_score # before.relevance_score
                   \/ \E j \in 1..Len(hRelevant) : hRelevant[j] = hArticles[k])
                 => BatchOf(k) <= Len(hLog) /\ EntryForPosition(k)
            /\ after.sentiment # before.sentiment
                 => /\ BatchOf(k) <= Len(hLog)
                    /\ \/ EntryForPosition(k)
                       \/ before.sentiment = "" /\ after.sentiment = "Neutral"

\* Both passes have answered a full batch with the stray-id array: only the
\* first article was selected, and only the first got the Negative.
C33_Witness ==
    /\ hPc = "done"
    /\ Len(hArticles) = batch_size
    /\ \/ /\ hLog = <<Response("array", StrayEntries)>>
          /\ hOut = <<hArticles[1]>>
          /\ \A k \in 2..batch_size : hHeap[hArticles[k]] = hHeap0[hArticles[k]]
       \/ /\ hLog = <<Response("array", StraySentiments)>>
          /\ hHeap[hArticles[1]].sentiment = "Negative"
          /\ hHeap0[hArticles[1]].sentiment = "Positive"
          /\ \A k \in 2..batch_size : hHeap[hArticles[k]] = hHeap0[hArticles[k]]

\* The oracle calls the step made.
NewCalls == SubSeq(oracleLog', Len(oracleLog) + 1, Len(oracleLog'))

\* The step made calls of this pass only, for the current group, on
\* articles the group's relevance call returned.
CallsOnlyOf(pass) ==
    \A c \in 1..Len(NewCalls) :
        /\ NewCalls[c].group = gi /\ NewCalls[c].pass = pass
        /\ Range(NewCalls[c].links) \subseteq Range(Links(heap, relevant))

\* Every summary the step's calls were given is the text scrape_article
\* returned for the link in this run, when it returned one.
ExcerptsAreScraped ==
    \A c \in 1..Len(NewCalls) : \A k \in 1..Len(NewCalls[c].links) :
        \A e \in 1..Len(scrapeLog) :
            (scrapeLog[e].link = NewCalls[c].links[k]) =>
                NewCalls[c].excerpts[k] =
                    IF scrapeLog[e].text # <<>> THEN scrapeLog[e].text
                    ELSE scrapeLog[e].before

\* C34: a group's steps come in the order relevance, scraping,
\* summarization, sentiment, digest and delivery; the scraping, the summary
\* calls and the sentiment calls are for the current group and for articles
\* its relevance call returned; the summary calls are given each article's
\* summary as the scraping step left it.  The steps are those of main();
\* midnight passing is none of them.
C34_StagesInOrder ==
    [][MainStep =>
       /\ (pc = "group" /\ pc' \notin {"group", "done"}) =>
             /\ pc' \in {"scrape", "summarize"}
             /\ \A c \in 1..Len(NewCalls) :
                   NewCalls[c].group = gi /\ NewCalls[c].pass = "relevance"
             /\ Range(relevant') \subseteq Range(fresh)
             /\ scrapeLog' = scrapeLog /\ sendLog' = sendLog
       /\ pc = "scrape" =>
             /\ pc' \in {"scrape", "summarize"}
             /\ config.scraping
             /\ oracleLog' = oracleLog /\ sendLog' = sendLog
             /\ relevant' = relevant /\ gi' = gi
             /\ scrapeLog' # scrapeLog =>
                   /\ Len(scrapeLog') = Len(scrapeLog) + 1
                   /\ scrapeLog'[Len(scrapeLog')].group = gi
                   /\ scrapeLog'[Len(scrapeLog')].link \in Range(Links(heap, relevant))
       /\ pc = "summarize" =>
             /\ pc' \in {"sentiment", "send"}
             /\ Len(NewCalls) = NumBatches(Len(relevant))
             /\ CallsOnlyOf("summary")
             /\ ExcerptsAreScraped
             /\ scrapeLog' = scrapeLog /\ sendLog' = sendLog
             /\ relevant' = relevant /\ gi' = gi
       /\ pc = "sentiment" =>
             /\ pc' = "send"
             /\ Len(NewCalls) = NumBatches(Len(relevant))
             /\ CallsOnlyOf("sentiment")
             /\ scrapeLog' = scrapeLog /\ sendLog' = sendLog
             /\ relevant' = relevant /\ gi' = gi
       /\ pc = "send" =>
             /\ pc' = "group"
             /\ oracleLog' = oracleLog /\ scrapeLog' = scrapeLog
             /\ Len(sendLog') = Len(sendLog) + 1
             /\ sendLog'[Len(sendLog')].group = gi
             /\ [k \in 1..Len(relevant) |->
                    sendLog'[Len(sendLog')].digest.items[k].link]
                  = Links(heap, relevant)]_vars

\* Two fresh articles, the group's relevance call returned one of them: it
\* alone was scraped, then summarized with the scraped text as its summary,
\* then classified, and the digest with it was sent.
C34_Witness ==
    /\ pc = "done"
    /\ Len(fresh) = 2
    /\ Len(sendLog) = 1 /\ Len(sendLog[1].digest.items) = 1
    /\ Len(scrapeLog) = 1 /\ scrapeLog[1].ok
    /\ scrapeLog[1].link = sendLog[1].digest.items[1].link
    /\ Len(oracleLog) = 3
    /\ oracleLog[1].pass = "relevance" /\ Len(oracleLog[1].links) = 2
    /\ oracleLog[2].pass = "summary"
    /\ oracleLog[2].links = <<scrapeLog[1].link>>
    /\ oracleLog[2].excerpts = <<scrapeLog[1].text>>
    /\ oracleLog[3].pass = "sentiment" /\ oracleLog[3].links = oracleLog[2].links

\* C35: no article is twice in the output of filter_relevant_articles,
\* whatever the oracle answered, an array that lists an id twice included.
C35_OutputHasNoRepeat ==
    hPc = "done" => \A i, j \in 1..Len(hOut) : hOut[i] = hOut[j] => i = j

\* The index in oracleLog of the call group g made in a pass for its b-th batch.
NthCall(g, pass, b) ==
    CHOOSE k \in CallsFor(g, pass) :
        Cardinality({i \in CallsFor(g, pass) : i < k}) = b - 1

\* The oracle's answer to the call is an array with an entry for position pos.
AnswerNames(answer, pos) ==
    /\ answer.kind = "array"
    /\ \E e \in 1..Len(answer.entries) :
          answer.entries[e].isDict /\ answer.entries[e].id = JInt(pos)

\* C36: when a group's own sentiment call for an article's batch raised or
\* gave no entry for the article, the group's digest shows no Positive or
\* Negative for it: what an earlier group's call assigned is not shown.
C36_SentimentFromOwnPassOnly ==
    \A k \in 1..Len(sendLog) :
        \A j \in 1..Len(sendLog[k].digest.items) :
            (/\ CallsFor(sendLog[k].group, "sentiment") # {}
             /\ ~AnswerNames(
                    oracleLog[NthCall(sendLog[k].group, "sentiment", BatchOf(j))].answer,
                    PosOf(j)))
                => sendLog[k].digest.items[j].sentiment \notin {"Positive", "Negative"}

=============================================================================
